---- MODULE Spec2Model ----
(***************************************************************************)
(* Model of the finance bot: the text extractors of utils/textProcessing,  *)
(* the receipt extractors of the receipt controller, the JSON store of     *)
(* database.js and the message handlers of index.js.                       *)
(*                                                                         *)
(* A JavaScript string is a sequence of one-character strings, so that      *)
(* String.includes and the regular expressions act on characters.          *)
(***************************************************************************)
EXTENDS Integers, Sequences, FiniteSets, TLC

(***************************************************************************)
(* Characters and strings                                                  *)
(***************************************************************************)

\* JavaScript null / undefined where a string is expected.  Every real
\* character is a one-character string, so no real string equals it.
\* F applied to the value of v, which is computed once
With(v, F(_)) == CHOOSE r \in {F(x) : x \in {v}} : TRUE

Null == << "<null>" >>

Digits == << "0", "1", "2", "3", "4", "5", "6", "7", "8", "9" >>

UpperCase == << "A", "B", "C", "D", "E", "F", "G", "H", "I", "J", "K", "L", "M",
                "N", "O", "P", "Q", "R", "S", "T", "U", "V", "W", "X", "Y", "Z",
                "Á", "É", "Í", "Ó", "Ú", "Ñ" >>

LowerCase == << "a", "b", "c", "d", "e", "f", "g", "h", "i", "j", "k", "l", "m",
                "n", "o", "p", "q", "r", "s", "t", "u", "v", "w", "x", "y", "z",
                "á", "é", "í", "ó", "ú", "ñ" >>

IsDigit(c) == \E k \in 1..Len(Digits) : Digits[k] = c

DigitVal(c) == (CHOOSE k \in 1..Len(Digits) : Digits[k] = c) - 1

\* \s
IsSpace(c) == c \in {" ", "\n", "\t"}

\* [0-9.,]
IsNumChar(c) == IsDigit(c) \/ c \in {".", ","}

\* [\/\-\.]
IsDateSep(c) == c \in {"/", "-", "."}

\* The letters toLowerCase changes
UpperLetters == {UpperCase[k] : k \in 1..Len(UpperCase)}

toLowerChar(c) ==
  IF c \in UpperLetters
  THEN LowerCase[CHOOSE k \in 1..Len(UpperCase) : UpperCase[k] = c]
  ELSE c

toLowerCase(t) == [k \in 1..Len(t) |-> toLowerChar(t[k])]

\* The character at position i, or the empty string past either end.
CharAt(t, i) == IF i \in 1..Len(t) THEN t[i] ELSE ""

\* The word w occurs in t at position i.
HasAt(t, i, w) ==
  /\ i >= 1
  /\ i + Len(w) - 1 <= Len(t)
  /\ \A k \in 1..Len(w) : t[i + k - 1] = w[k]

\* String.prototype.includes
Includes(t, w) == \E i \in 1..(Len(t) - Len(w) + 1) : HasAt(t, i, w)

\* First position at or after i that holds no white space (\s*, greedy).
SkipSpace(t, i) ==
  CHOOSE j \in i..(Len(t) + 1) :
    /\ \A k \in i..(j - 1) : IsSpace(t[k])
    /\ ~IsSpace(CharAt(t, j))

\* Length of the longest run of digits that starts at position i.
DigitRun(t, i) ==
  CHOOSE n \in 0..(Len(t) + 1 - i) :
    /\ \A k \in i..(i + n - 1) : IsDigit(t[k])
    /\ ~IsDigit(CharAt(t, i + n))

\* Length of the longest run of [0-9.,] that starts at position i.
NumRun(t, i) ==
  CHOOSE n \in 0..(Len(t) + 1 - i) :
    /\ \A k \in i..(i + n - 1) : IsNumChar(t[k])
    /\ ~IsNumChar(CharAt(t, i + n))

Min(a, b) == IF a < b THEN a ELSE b

MinOf(S) == With(S, LAMBDA T : CHOOSE x \in T : \A y \in T : x <= y)

\* parseInt(s, 10) of a string of digits
parseInt(s) ==
  LET value[k \in 0..Len(s)] ==
        IF k = 0 THEN 0 ELSE 10 * value[k - 1] + DigitVal(s[k])
  IN value[Len(s)]

\* String(n) for a non-negative integer
String(n) ==
  LET str[m \in 0..n] ==
        IF m < 10 THEN << Digits[m + 1] >>
        ELSE str[m \div 10] \o << Digits[(m % 10) + 1] >>
  IN str[n]

\* String.prototype.padStart(n, c)
padStart(s, n, c) ==
  IF Len(s) >= n THEN s ELSE [k \in 1..(n - Len(s)) |-> c] \o s

\* String.prototype.replace(',', '.'): only the first comma is replaced.
replaceFirstComma(s) ==
  IF \E k \in 1..Len(s) : s[k] = ","
  THEN [s EXCEPT ![MinOf({k \in 1..Len(s) : s[k] = ","})] = "."]
  ELSE s

(***************************************************************************)
(* The JavaScript Date, as far as the code uses it.  A Date is its day     *)
(* number (days since 1970-01-01, local time); the time of day plays no    *)
(* part in getFullYear, getMonth, getDate and setDate.  Months are 0..11.  *)
(***************************************************************************)

IsLeapYear(y) == (y % 4 = 0 /\ y % 100 # 0) \/ y % 400 = 0

DaysInYear(y) == IF IsLeapYear(y) THEN 366 ELSE 365

DayFromYear(y) ==
  365 * (y - 1970) + ((y - 1969) \div 4) - ((y - 1901) \div 100)
    + ((y - 1601) \div 400)

\* Days of the year y before its month m (0..11); m = 12 gives the whole year.
MonthOffset(y, m) ==
  LET leap == IF IsLeapYear(y) THEN 1 ELSE 0
      tbl  == << 0, 31, 59 + leap, 90 + leap, 120 + leap, 151 + leap,
                 181 + leap, 212 + leap, 243 + leap, 273 + leap, 304 + leap,
                 334 + leap, 365 + leap >>
  IN tbl[m + 1]

\* MakeDay(year, month, date) of ECMAScript: the date may lie outside the
\* month, and the day number then falls in a neighbouring month.
MakeDay(y, m, dt) ==
  LET ym == y + (m \div 12)
      mn == m % 12
  IN DayFromYear(ym) + MonthOffset(ym, mn) + dt - 1

Years == 1970..2099

getFullYear(day) ==
  CHOOSE y \in Years : DayFromYear(y) <= day /\ day < DayFromYear(y + 1)

getMonth(day) ==
  With(getFullYear(day), LAMBDA y :
  With(day - DayFromYear(y), LAMBDA dw :
    CHOOSE m \in 0..11 : MonthOffset(y, m) <= dw /\ dw < MonthOffset(y, m + 1)))

getDate(day) ==
  With(getFullYear(day), LAMBDA y :
    day - DayFromYear(y) - MonthOffset(y, getMonth(day)) + 1)

\* setDate, were a day before the first kept within the month.
setDate_mut(day, n) ==
  MakeDay(getFullYear(day), getMonth(day), IF n < 1 THEN 1 ELSE n)

\* Date.prototype.setDate(n): day n of the month of the date, n of any sign.
setDate(day, n) == MakeDay(getFullYear(day), getMonth(day), n)

\* formatDate of utils/textProcessing
formatDate(date) ==
  LET year  == getFullYear(date)
      month == padStart(String(getMonth(date) + 1), 2, "0")
      day   == padStart(String(getDate(date)), 2, "0")
  IN String(year) \o << "-" >> \o month \o << "-" >> \o day

(***************************************************************************)
(* Keywords and fixed words of the code, as character sequences            *)
(***************************************************************************)

\* The words of config.datePatterns[0]
dateWords ==
  [el    |-> << "e", "l" >>,
   del   |-> << "d", "e", "l" >>,
   fecha |-> << "f", "e", "c", "h", "a" >>]

\* The words of the relative dates of extractDateFromText
dayWords ==
  [hoy      |-> << "h", "o", "y" >>,
   ayer     |-> << "a", "y", "e", "r" >>,
   anteayer |-> << "a", "n", "t", "e", "a", "y", "e", "r" >>]

\* config.expenseCategories, in declared order
expenseCategories == <<
  [category |-> "supermercado",
   key |-> << "s", "u", "p", "e", "r", "m", "e", "r", "c", "a", "d", "o" >>,
   keywords |-> <<
     << "m", "e", "r", "c", "a", "d", "o" >>,
     << "s", "u", "p", "e", "r" >>,
     << "c", "a", "r", "r", "e", "f", "o", "u", "r" >>,
     << "d", "í", "a" >>,
     << "c", "o", "t", "o" >>,
     << "j", "u", "m", "b", "o" >>,
     << "w", "a", "l", "m", "a", "r", "t" >>,
     << "a", "l", "i", "m", "e", "n", "t", "o" >>,
     << "v", "e", "r", "d", "u", "l", "e", "r", "í", "a" >>,
     << "f", "r", "u", "t", "e", "r", "í", "a" >>,
     << "c", "o", "m", "p", "r", "a", "s" >>
   >>],
  [category |-> "restaurante",
   key |-> << "r", "e", "s", "t", "a", "u", "r", "a", "n", "t", "e" >>,
   keywords |-> <<
     << "r", "e", "s", "t", "a", "u", "r", "a", "n", "t", "e" >>,
     << "b", "a", "r" >>,
     << "c", "a", "f", "é" >>,
     << "m", "e", "n", "u" >>,
     << "c", "o", "m", "i", "d", "a" >>,
     << "a", "l", "m", "u", "e", "r", "z", "o" >>,
     << "c", "e", "n", "a" >>,
     << "d", "e", "s", "a", "y", "u", "n", "o" >>,
     << "m", "e", "r", "i", "e", "n", "d", "a" >>
   >>],
  [category |-> "transporte",
   key |-> << "t", "r", "a", "n", "s", "p", "o", "r", "t", "e" >>,
   keywords |-> <<
     << "u", "b", "e", "r" >>,
     << "c", "a", "b", "i", "f", "y" >>,
     << "t", "a", "x", "i" >>,
     << "t", "r", "a", "n", "s", "p", "o", "r", "t", "e" >>,
     << "c", "o", "m", "b", "u", "s", "t", "i", "b", "l", "e" >>,
     << "g", "a", "s", "o", "l", "i", "n", "a" >>,
     << "e", "s", "t", "a", "c", "i", "o", "n", "a", "m", "i", "e", "n", "t", "o" >>,
     << "s", "u", "b", "e" >>,
     << "c", "o", "l", "e", "c", "t", "i", "v", "o" >>,
     << "s", "u", "b", "t", "e" >>,
     << "t", "r", "e", "n" >>
   >>],
  [category |-> "servicios",
   key |-> << "s", "e", "r", "v", "i", "c", "i", "o", "s" >>,
   keywords |-> <<
     << "e", "l", "e", "c", "t", "r", "i", "c", "i", "d", "a", "d" >>,
     << "a", "g", "u", "a" >>,
     << "g", "a", "s" >>,
     << "i", "n", "t", "e", "r", "n", "e", "t" >>,
     << "t", "e", "l", "é", "f", "o", "n", "o" >>,
     << "c", "e", "l", "u", "l", "a", "r" >>,
     << "f", "a", "c", "t", "u", "r", "a" >>,
     << "s", "e", "r", "v", "i", "c", "i", "o" >>,
     << "w", "i", "f", "i" >>,
     << "e", "t", "b" >>,
     << "w", "o", "m" >>
   >>],
  [category |-> "entretenimiento",
   key |-> << "e", "n", "t", "r", "e", "t", "e", "n", "i", "m", "i", "e", "n", "t", "o" >>,
   keywords |-> <<
     << "c", "i", "n", "e" >>,
     << "t", "e", "a", "t", "r", "o" >>,
     << "c", "o", "n", "c", "i", "e", "r", "t", "o" >>,
     << "e", "v", "e", "n", "t", "o" >>,
     << "s", "t", "r", "e", "a", "m", "i", "n", "g" >>,
     << "n", "e", "t", "f", "l", "i", "x" >>,
     << "s", "p", "o", "t", "i", "f", "y" >>,
     << "d", "i", "s", "n", "e", "y" >>,
     << "h", "b", "o" >>,
     << "p", "r", "i", "m", "e" >>,
     << "c", "l", "a", "u", "d", "e" >>
   >>],
  [category |-> "salud",
   key |-> << "s", "a", "l", "u", "d" >>,
   keywords |-> <<
     << "f", "a", "r", "m", "a", "c", "i", "a" >>,
     << "m", "é", "d", "i", "c", "o" >>,
     << "h", "o", "s", "p", "i", "t", "a", "l" >>,
     << "c", "l", "í", "n", "i", "c", "a" >>,
     << "c", "o", "n", "s", "u", "l", "t", "a" >>,
     << "r", "e", "m", "e", "d", "i", "o" >>,
     << "m", "e", "d", "i", "c", "i", "n", "a" >>,
     << "b", "o", "d", "y", "t", "e", "c", "h" >>,
     << "g", "i", "m", "n", "a", "s", "i", "o" >>
   >>],
  [category |-> "tecnología",
   key |-> << "t", "e", "c", "n", "o", "l", "o", "g", "í", "a" >>,
   keywords |-> <<
     << "c", "o", "m", "p", "u", "t", "a", "d", "o", "r", "a" >>,
     << "p", "c" >>,
     << "l", "a", "p", "t", "o", "p" >>,
     << "c", "e", "l", "u", "l", "a", "r" >>,
     << "g", "a", "d", "g", "e", "t" >>,
     << "a", "u", "r", "i", "c", "u", "l", "a", "r" >>,
     << "e", "a", "r", "b", "u", "d", "s" >>,
     << "h", "a", "r", "d", "w", "a", "r", "e" >>,
     << "s", "o", "f", "t", "w", "a", "r", "e" >>,
     << "a", "p", "p" >>,
     << "a", "p", "l", "i", "c", "a", "c", "i", "ó", "n" >>
   >>],
  [category |-> "snacks",
   key |-> << "s", "n", "a", "c", "k", "s" >>,
   keywords |-> <<
     << "d", "u", "l", "c", "e", "s" >>,
     << "s", "n", "a", "c", "k", "s" >>,
     << "g", "o", "l", "o", "s", "i", "n", "a", "s" >>,
     << "c", "h", "o", "c", "o", "l", "a", "t", "e" >>,
     << "g", "a", "l", "l", "e", "t", "a", "s" >>,
     << "b", "e", "b", "i", "d", "a", "s" >>,
     << "r", "e", "f", "r", "e", "s", "c", "o" >>,
     << "c", "a", "f", "é" >>
   >>],
  [category |-> "educación",
   key |-> << "e", "d", "u", "c", "a", "c", "i", "ó", "n" >>,
   keywords |-> <<
     << "u", "n", "i", "v", "e", "r", "s", "i", "d", "a", "d" >>,
     << "c", "u", "r", "s", "o" >>,
     << "l", "i", "b", "r", "o" >>,
     << "s", "e", "m", "e", "s", "t", "r", "e" >>,
     << "m", "a", "t", "r", "í", "c", "u", "l", "a" >>,
     << "c", "l", "a", "s", "e", "s" >>
   >>],
  [category |-> "otros",
   key |-> << "o", "t", "r", "o", "s" >>,
   keywords |-> <<
   >>]
>>

\* config.intentKeywords, in declared order
intentKeywords == <<
  [intent |-> "gasto", keywords |-> <<
     << "g", "a", "s", "t", "é" >>,
     << "p", "a", "g", "u", "é" >>,
     << "c", "o", "m", "p", "r", "é" >>,
     << "a", "b", "o", "n", "o" >>,
     << "p", "a", "g", "a", "d", "o" >>,
     << "c", "o", "s", "t", "o" >>,
     << "c", "o", "m", "p", "r", "a" >>,
     << "g", "a", "s", "t", "o" >>,
     << "p", "a", "g", "o" >>
   >>],
  [intent |-> "ingreso", keywords |-> <<
     << "c", "o", "b", "r", "é" >>,
     << "r", "e", "c", "i", "b", "í" >>,
     << "i", "n", "g", "r", "e", "s", "é" >>,
     << "i", "n", "g", "r", "e", "s", "o" >>,
     << "d", "e", "p", "ó", "s", "i", "t", "o" >>,
     << "t", "r", "a", "n", "s", "f", "e", "r", "e", "n", "c", "i", "a" >>,
     << "s", "u", "e", "l", "d", "o" >>,
     << "h", "o", "n", "o", "r", "a", "r", "i", "o", "s" >>,
     << "c", "o", "b", "r", "o" >>,
     << "f", "r", "e", "e", "l", "a", "n", "c", "e" >>
   >>],
  [intent |-> "meta", keywords |-> <<
     << "m", "e", "t", "a" >>,
     << "o", "b", "j", "e", "t", "i", "v", "o" >>,
     << "a", "h", "o", "r", "r", "a", "r" >>,
     << "a", "h", "o", "r", "r", "o" >>,
     << "r", "e", "s", "e", "r", "v", "a", "r" >>,
     << "a", "p", "a", "r", "t", "a", "d", "o" >>,
     << "d", "e", "s", "t", "i", "n", "a", "r" >>
   >>],
  [intent |-> "reporte", keywords |-> <<
     << "r", "e", "p", "o", "r", "t", "e" >>,
     << "i", "n", "f", "o", "r", "m", "e" >>,
     << "e", "s", "t", "a", "d", "í", "s", "t", "i", "c", "a", "s" >>,
     << "a", "n", "á", "l", "i", "s", "i", "s" >>,
     << "b", "a", "l", "a", "n", "c", "e" >>,
     << "r", "e", "s", "u", "m", "e", "n" >>
   >>],
  [intent |-> "presupuesto", keywords |-> <<
     << "p", "r", "e", "s", "u", "p", "u", "e", "s", "t", "o" >>,
     << "l", "í", "m", "i", "t", "e" >>,
     << "a", "s", "i", "g", "n", "a", "r" >>,
     << "d", "e", "s", "t", "i", "n", "a", "r" >>
   >>]
>>

\* The verbs of the fifth amount pattern, in the order of the alternation
amountVerbs == <<
  << "p", "a", "g", "u", "é" >>,
  << "g", "a", "s", "t", "é" >>,
  << "c", "o", "s", "t", "ó" >>,
  << "c", "o", "m", "p", "r", "é" >>,
  << "a", "b", "o", "n", "o" >>,
  << "c", "o", "s", "t", "o" >>,
  << "c", "o", "m", "p", "r", "a" >>,
  << "p", "a", "g", "o" >>,
  << "g", "a", "s", "t", "o" >>
>>

(***************************************************************************)
(* Date extraction                                                          *)
(***************************************************************************)

NoMatch == [ok |-> FALSE, g1 |-> << >>, g2 |-> << >>, g3 |-> << >>]

\* config.datePatterns[0] tried at position i of t (lt is t in lower case):
\*   /(?:el|del|fecha)\s*(\d{1,2})[\/\-\.](\d{1,2})(?:[\/\-\.](\d{2,4}))?/i
\* A missing third group is the empty sequence.
datePattern0At(t, lt, i) ==
  LET w  == IF HasAt(lt, i, dateWords.el) THEN Len(dateWords.el)
            ELSE IF HasAt(lt, i, dateWords.del) THEN Len(dateWords.del)
            ELSE IF HasAt(lt, i, dateWords.fecha) THEN Len(dateWords.fecha)
            ELSE 0
      p1 == SkipSpace(t, i + w)
      n1 == DigitRun(t, p1)
      p2 == p1 + n1 + 1
      n2 == Min(DigitRun(t, p2), 2)
      p3 == p2 + n2 + 1
      n3 == Min(DigitRun(t, p3), 4)
      hasYear == IsDateSep(CharAt(t, p3 - 1)) /\ n3 >= 2
  IN IF w > 0 /\ n1 \in 1..2 /\ IsDateSep(CharAt(t, p1 + n1)) /\ n2 >= 1
     THEN [ok |-> TRUE,
           g1 |-> SubSeq(t, p1, p1 + n1 - 1),
           g2 |-> SubSeq(t, p2, p2 + n2 - 1),
           g3 |-> IF hasYear THEN SubSeq(t, p3, p3 + n3 - 1) ELSE << >>]
     ELSE NoMatch

\* text.match(config.datePatterns[0]): the leftmost match
datePattern0(t) ==
  With(toLowerCase(t), LAMBDA lt :
  With({i \in 1..Len(t) : datePattern0At(t, lt, i).ok}, LAMBDA S :
    IF S = {} THEN NoMatch ELSE datePattern0At(t, lt, MinOf(S))))

\* `${year}-${String(month).padStart(2, '0')}-${String(day).padStart(2, '0')}`
dateTemplate(year, month, day) ==
  String(year) \o << "-" >> \o padStart(String(month), 2, "0")
    \o << "-" >> \o padStart(String(day), 2, "0")

\* Two-digit years: below 50 is 20xx, 50..99 is 19xx.
adjustYear(year) ==
  IF year < 100 THEN year + (IF year < 50 THEN 2000 ELSE 1900) ELSE year

\* extractDateFromText of utils/textProcessing; now is `new Date()`.
extractDateFromText(text, now) ==
  With(datePattern0(text), LAMBDA dateMatch :
  With(toLowerCase(text), LAMBDA lower :
    IF dateMatch.ok
    THEN LET day   == parseInt(dateMatch.g1)
             month == parseInt(dateMatch.g2)
             year  == IF dateMatch.g3 # << >> THEN parseInt(dateMatch.g3)
                      ELSE getFullYear(now)
         IN dateTemplate(adjustYear(year), month, day)
    ELSE IF Includes(lower, dayWords.hoy) THEN formatDate(now)
    ELSE IF Includes(lower, dayWords.ayer)
         THEN formatDate(setDate(now, getDate(now) - 1))
    ELSE IF Includes(lower, dayWords.anteayer)
         THEN formatDate(setDate(now, getDate(now) - 2))
    ELSE formatDate(now)))

\* Three groups of digits separated by [-\/\.], tried at position p:
\* (\d{lo1,hi1})[-\/\.](\d{lo2,hi2})[-\/\.](\d{lo3,hi3})
threeGroupsAt(t, p, lo1, hi1, lo2, hi2, lo3, hi3) ==
  LET n1 == DigitRun(t, p)
      p2 == p + n1 + 1
      n2 == DigitRun(t, p2)
      p3 == p2 + n2 + 1
      n3 == Min(DigitRun(t, p3), hi3)
  IN IF /\ n1 \in lo1..hi1 /\ IsDateSep(CharAt(t, p + n1))
        /\ n2 \in lo2..hi2 /\ IsDateSep(CharAt(t, p2 + n2))
        /\ n3 >= lo3
     THEN [ok |-> TRUE,
           g1 |-> SubSeq(t, p, p + n1 - 1),
           g2 |-> SubSeq(t, p2, p2 + n2 - 1),
           g3 |-> SubSeq(t, p3, p3 + n3 - 1)]
     ELSE NoMatch

\* Position after /FECHA\s*:?\s*/i tried at position i, or 0.
afterFechaLabel(t, lt, i) ==
  IF HasAt(lt, i, dateWords.fecha)
  THEN LET a == SkipSpace(t, i + Len(dateWords.fecha))
           b == IF CharAt(t, a) = ":" THEN a + 1 ELSE a
       IN SkipSpace(t, b)
  ELSE 0

\* The four patterns of extractDate, each tried at position i.
receiptDatePatternAt(k, t, lt, i) ==
  LET f == afterFechaLabel(t, lt, i)
  IN CASE k = 1 -> IF f = 0 THEN NoMatch
                   ELSE threeGroupsAt(t, f, 1, 2, 1, 2, 2, 4)
       [] k = 2 -> IF f = 0 THEN NoMatch
                   ELSE threeGroupsAt(t, f, 2, 4, 1, 2, 1, 2)
       [] k = 3 -> threeGroupsAt(t, i, 1, 2, 1, 2, 2, 4)
       [] k = 4 -> threeGroupsAt(t, i, 2, 4, 1, 2, 1, 2)

receiptDatePattern(k, t) ==
  With(toLowerCase(t), LAMBDA lt :
  With({i \in 1..Len(t) : receiptDatePatternAt(k, t, lt, i).ok}, LAMBDA S :
    IF S = {} THEN NoMatch ELSE receiptDatePatternAt(k, t, lt, MinOf(S))))

\* extractDate of the receipt controller; now is `new Date()`.
extractDate(text, now) ==
  With({k \in 1..4 : receiptDatePattern(k, text).ok}, LAMBDA K :
    IF K = {} THEN formatDate(now)
    ELSE With(receiptDatePattern(MinOf(K), text), LAMBDA match :
           IF parseInt(match.g1) > 31
           THEN dateTemplate(parseInt(match.g1), parseInt(match.g2),
                             parseInt(match.g3))
           ELSE dateTemplate(adjustYear(parseInt(match.g3)),
                             parseInt(match.g2), parseInt(match.g1))))

(***************************************************************************)
(* Amount extraction                                                        *)
(***************************************************************************)

\* The words of config.amountPatterns
amountWords ==
  [pesos |-> << "p", "e", "s", "o", "s" >>,
   ars   |-> << "a", "r", "s" >>,
   de    |-> << "d", "e" >>,
   en    |-> << "e", "n" >>,
   por   |-> << "p", "o", "r" >>]

\* Length of the verb of amountVerbs found at position i of lt, or 0.
verbAt(lt, i) ==
  LET V == {k \in 1..Len(amountVerbs) : HasAt(lt, i, amountVerbs[k])}
  IN IF V = {} THEN 0 ELSE Len(amountVerbs[MinOf(V)])

\* The run of [0-9.,] at p when a word of `words` follows it after \s*,
\* else the empty sequence: ([0-9.,]+)\s*(?:w1|w2|...)
numBefore(t, lt, p, words) ==
  LET n == NumRun(t, p)
      q == SkipSpace(t, p + n)
  IN IF n >= 1 /\ \E w \in words : HasAt(lt, q, w)
     THEN SubSeq(t, p, p + n - 1)
     ELSE << >>

\* The run of [0-9.,] at p, possibly empty: ([0-9.,]+)
numAt(t, p) == SubSeq(t, p, p + NumRun(t, p) - 1)

\* Group 1 of config.amountPatterns[k - 1] tried at position i of t (lt is t
\* in lower case); the empty sequence when the pattern does not match there.
amountPatternAt(k, t, lt, i) ==
  CASE k = 1 ->  \* /\$\s*([0-9.,]+)/
         IF t[i] = "$" THEN numAt(t, SkipSpace(t, i + 1)) ELSE << >>
    [] k = 2 ->  \* /([0-9.,]+)\s*pesos/i
         numBefore(t, lt, i, {amountWords.pesos})
    [] k = 3 ->  \* /([0-9.,]+)\s*\$/
         numBefore(t, lt, i, {<< "$" >>})
    [] k = 4 ->  \* /([0-9.,]+)\s*ars/i
         numBefore(t, lt, i, {amountWords.ars})
    [] k = 5 ->  \* /(?:pagué|...|gasto)\s*(?:de)?\s*\$?\s*([0-9.,]+)/i
         LET v == verbAt(lt, i)
             a == SkipSpace(t, i + v)
             b == SkipSpace(t, IF HasAt(lt, a, amountWords.de) THEN a + Len(amountWords.de) ELSE a)
             c == SkipSpace(t, IF CharAt(t, b) = "$" THEN b + 1 ELSE b)
         IN IF v > 0 THEN numAt(t, c) ELSE << >>
    [] k = 6 ->  \* /\$?\s*([0-9.,]+)\s*(?:en|por)/i
         LET a == IF t[i] = "$" THEN i + 1 ELSE i
         IN numBefore(t, lt, SkipSpace(t, a), {amountWords.en, amountWords.por})

\* Group 1 of text.match(config.amountPatterns[k - 1]): the leftmost match
amountPattern(k, t) ==
  With(toLowerCase(t), LAMBDA lt :
  With({i \in 1..Len(t) : amountPatternAt(k, t, lt, i) # << >>}, LAMBDA S :
    IF S = {} THEN << >> ELSE amountPatternAt(k, t, lt, MinOf(S))))

NumAmountPatterns == 6

\* extractAmountFromText, were the last pattern that matches to win.
extractAmountFromText_mut(text) ==
  With({k \in 1..NumAmountPatterns : amountPattern(k, text) # << >>},
       LAMBDA K :
         IF K = {} THEN Null
         ELSE With(amountPattern(CHOOSE k \in K : \A j \in K : j <= k, text),
                   replaceFirstComma))

\* extractAmountFromText of utils/textProcessing
extractAmountFromText(text) ==
  With({k \in 1..NumAmountPatterns : amountPattern(k, text) # << >>},
       LAMBDA K :
         IF K = {} THEN Null
         ELSE With(amountPattern(MinOf(K), text), replaceFirstComma))

(***************************************************************************)
(* Intent and category                                                      *)
(***************************************************************************)

NullIntent == "null"

\* Some keyword of the list occurs in the (lower-case) text.
anyKeyword(textLower, keywords) ==
  \E k \in 1..Len(keywords) : Includes(textLower, keywords[k])

\* getIntent, were a text with an amount and no keyword left without intent.
getIntent_mut(text) ==
  With(toLowerCase(text), LAMBDA textLower :
  With({g \in 1..Len(intentKeywords) :
          anyKeyword(textLower, intentKeywords[g].keywords)}, LAMBDA G :
    IF G # {} THEN intentKeywords[MinOf(G)].intent ELSE NullIntent))

\* getIntent of utils/textProcessing
getIntent(text) ==
  With(toLowerCase(text), LAMBDA textLower :
  With({g \in 1..Len(intentKeywords) :
          anyKeyword(textLower, intentKeywords[g].keywords)}, LAMBDA G :
    IF G # {} THEN intentKeywords[MinOf(G)].intent
    ELSE IF extractAmountFromText(text) # Null THEN "gasto"
    ELSE NullIntent))

\* detectIntent, were a text with an amount and no keyword left undecided.
detectIntent_mut(fullText) ==
  IF anyKeyword(fullText, intentKeywords[1].keywords) THEN "gasto"
  ELSE IF anyKeyword(fullText, intentKeywords[2].keywords) THEN "ingreso"
  ELSE NullIntent

\* detectIntent of utils/textProcessing; fullText is the text in lower case.
detectIntent(fullText) ==
  IF anyKeyword(fullText, intentKeywords[1].keywords) THEN "gasto"
  ELSE IF anyKeyword(fullText, intentKeywords[2].keywords) THEN "ingreso"
  ELSE IF extractAmountFromText(fullText) # Null THEN "gasto"
  ELSE NullIntent

\* categorizeExpense, were the last category with a keyword to win.
categorizeExpense_mut(text) ==
  With(toLowerCase(text), LAMBDA textLower :
  With({c \in 1..Len(expenseCategories) :
          \E k \in 1..Len(expenseCategories[c].keywords) :
            With(toLowerCase(expenseCategories[c].keywords[k]),
                 LAMBDA keyword : Includes(textLower, keyword))}, LAMBDA C :
    IF C # {} THEN expenseCategories[CHOOSE c \in C : \A d \in C : d <= c]
                     .category
    ELSE "otros"))

\* categorizeExpense of utils/textProcessing
categorizeExpense(text) ==
  With(toLowerCase(text), LAMBDA textLower :
  With({c \in 1..Len(expenseCategories) :
          \E k \in 1..Len(expenseCategories[c].keywords) :
            With(toLowerCase(expenseCategories[c].keywords[k]),
                 LAMBDA keyword : Includes(textLower, keyword))}, LAMBDA C :
    IF C # {} THEN expenseCategories[MinOf(C)].category ELSE "otros"))

(***************************************************************************)
(* Receipt amount                                                           *)
(***************************************************************************)

\* The labels of the patterns of extractAmount
receiptWords ==
  [total   |-> << "t", "o", "t", "a", "l" >>,
   importe |-> << "i", "m", "p", "o", "r", "t", "e" >>]

\* [\$€]
IsCurrency(c) == c \in {"$", "€"}

\* Group 1 of /LABEL\s*:?\s*[\$€]?\s*([0-9.,]+)/i tried at position i (the
\* colon only when `colon` holds); the empty sequence when it does not match.
labelledAmountAt(t, lt, i, label, colon) ==
  LET a == SkipSpace(t, i + Len(label))
      b == IF colon /\ CharAt(t, a) = ":" THEN SkipSpace(t, a + 1) ELSE a
      c == SkipSpace(t, IF IsCurrency(CharAt(t, b)) THEN b + 1 ELSE b)
  IN IF HasAt(lt, i, label) THEN numAt(t, c) ELSE << >>

\* The four patterns of extractAmount, each tried at position i.
receiptAmountPatternAt(k, t, lt, i) ==
  CASE k = 1 -> labelledAmountAt(t, lt, i, receiptWords.total, FALSE)
    [] k = 2 -> labelledAmountAt(t, lt, i, receiptWords.importe, FALSE)
    [] k = 3 -> labelledAmountAt(t, lt, i, receiptWords.total, TRUE)
    [] k = 4 -> IF IsCurrency(t[i]) THEN numAt(t, SkipSpace(t, i + 1))
                ELSE << >>

receiptAmountPattern(k, t) ==
  With(toLowerCase(t), LAMBDA lt :
  With({i \in 1..Len(t) : receiptAmountPatternAt(k, t, lt, i) # << >>},
       LAMBDA S :
         IF S = {} THEN << >>
         ELSE receiptAmountPatternAt(k, t, lt, MinOf(S))))

\* extractAmount, were the bare currency pattern tried first.
extractAmount_mut(text) ==
  With({k \in 1..4 : receiptAmountPattern(k, text) # << >>}, LAMBDA K :
    IF K = {} THEN Null
    ELSE With(receiptAmountPattern(CHOOSE k \in K : \A j \in K : j <= k,
                                   text), replaceFirstComma))

\* extractAmount, were match[1] of the first pattern read without the test
\* of the match: a TypeError when the pattern does not match.
extractAmount_raise(text) ==
  IF receiptAmountPattern(1, text) = << >> THEN << "TypeError" >>
  ELSE With(receiptAmountPattern(1, text), replaceFirstComma)

\* extractAmount of the receipt controller
extractAmount(text) ==
  With({k \in 1..4 : receiptAmountPattern(k, text) # << >>}, LAMBDA K :
    IF K = {} THEN Null
    ELSE With(receiptAmountPattern(MinOf(K), text), replaceFirstComma))

(***************************************************************************)
(* Numbers.  A JavaScript number is held in thousandths; NaN is its own     *)
(* value.  The amounts of the model have at most three decimals.            *)
(***************************************************************************)

NaN == -1

Num(n) == n * 1000

\* parseFloat of a string over [0-9.,]: the longest prefix of the form
\* digits [. digits] that holds a digit; NaN when there is none.
parseFloat(s) ==
  LET n1   == DigitRun(s, 1)
      dot  == CharAt(s, n1 + 1) = "."
      n2   == IF dot THEN DigitRun(s, n1 + 2) ELSE 0
      frac == SubSeq(s, n1 + 2, n1 + 1 + Min(n2, 3))
      pad  == CASE Len(frac) = 0 -> 1000 [] Len(frac) = 1 -> 100
                [] Len(frac) = 2 -> 10 [] OTHER -> 1
  IN IF n1 = 0 /\ n2 = 0 THEN NaN
     ELSE Num(parseInt(SubSeq(s, 1, n1)))
            + (IF Len(frac) = 0 THEN 0 ELSE parseInt(frac) * pad)

(***************************************************************************)
(* processBudget: the update pattern and the best-matching category         *)
(***************************************************************************)

\* The words of processBudget
budgetWords ==
  [presupuesto |-> << "p", "r", "e", "s", "u", "p", "u", "e", "s", "t", "o" >>,
   asignar     |-> << "a", "s", "i", "g", "n", "a", "r" >>,
   destinar    |-> << "d", "e", "s", "t", "i", "n", "a", "r" >>,
   para        |-> << "p", "a", "r", "a" >>,
   a           |-> << "a" >>,
   ver         |-> << "v", "e", "r" >>,
   estado      |-> << "e", "s", "t", "a", "d", "o" >>,
   consultar   |-> << "c", "o", "n", "s", "u", "l", "t", "a", "r" >>]

\* Length of the longest run of white space that starts at position i.
SpaceRun(t, i) == SkipSpace(t, i) - i

\* String.prototype.trim
trim(s) ==
  LET K == {k \in 1..Len(s) : ~IsSpace(s[k])}
  IN IF K = {} THEN << >>
     ELSE SubSeq(s, MinOf(K), CHOOSE k \in K : \A j \in K : j <= k)

\* Group 2 of the tail /\s+(?:de)?\s*\$?\s*([0-9.,]+)/ tried at position q;
\* the empty sequence when it does not match there.
budgetTailAt(t, q) ==
  LET a == SkipSpace(t, q)
      b == SkipSpace(t, IF HasAt(t, a, amountWords.de) THEN a + Len(amountWords.de) ELSE a)
      c == SkipSpace(t, IF CharAt(t, b) = "$" THEN b + 1 ELSE b)
  IN IF IsSpace(CharAt(t, q)) THEN numAt(t, c) ELSE << >>

\* The ends q of (.+?) started at c: one character or more, none a line
\* break, with the tail matching at q.
budgetNameEnds(t, c) ==
  {q \in (c + 1)..Len(t) :
     /\ \A k \in c..(q - 1) : t[k] # "\n"
     /\ budgetTailAt(t, q) # << >>}

NoBudgetMatch == [ok |-> FALSE, name |-> << >>, amount |-> << >>]

\* The pattern of processBudget tried at position i of the lower-case text:
\*   /(?:presupuesto|asignar|destinar)\s+(?:para|a|en)?\s+(.+?)\s+(?:de)?\s*\$?\s*([0-9.,]+)/i
\* `starts` lists where (.+?) can begin, in the order the matcher tries them:
\* after the preposition first, then without one.
budgetPatternAt(t, i) ==
  LET w  == IF HasAt(t, i, budgetWords.presupuesto) THEN Len(budgetWords.presupuesto)
            ELSE IF HasAt(t, i, budgetWords.asignar) THEN Len(budgetWords.asignar)
            ELSE IF HasAt(t, i, budgetWords.destinar) THEN Len(budgetWords.destinar)
            ELSE 0
      s1 == SpaceRun(t, i + w)
      a  == i + w + s1
      p  == IF HasAt(t, a, budgetWords.para) THEN Len(budgetWords.para)
            ELSE IF HasAt(t, a, budgetWords.a) THEN Len(budgetWords.a)
            ELSE IF HasAt(t, a, amountWords.en) THEN Len(amountWords.en)
            ELSE 0
      b  == a + p
      s2 == SpaceRun(t, b)
      withPrep    == IF p > 0 THEN [k \in 1..s2 |-> b + s2 - k + 1] ELSE << >>
      withoutPrep == IF s1 >= 2 THEN [k \in 1..(s1 - 1) |-> a - k + 1]
                     ELSE << >>
      starts == withPrep \o withoutPrep
      good   == {k \in 1..Len(starts) : budgetNameEnds(t, starts[k]) # {}}
  IN IF w > 0 /\ s1 >= 1 /\ good # {}
     THEN LET c == starts[MinOf(good)]
              q == MinOf(budgetNameEnds(t, c))
          IN [ok |-> TRUE, name |-> SubSeq(t, c, q - 1),
              amount |-> budgetTailAt(t, q)]
     ELSE NoBudgetMatch

\* text.match(...) of processBudget: the leftmost match
budgetPattern(t) ==
  With({i \in 1..Len(t) : budgetPatternAt(t, i).ok}, LAMBDA S :
    IF S = {} THEN NoBudgetMatch ELSE budgetPatternAt(t, MinOf(S)))

MaxOf(S) == With(S, LAMBDA T : CHOOSE x \in T : \A y \in T : y <= x)

\* The best score of category c for the name: the containment of the key
\* either way, and the keywords the name contains; 0 when there is none.
categoryScore(c, categoryName) ==
  LET key == expenseCategories[c].key
      kws == expenseCategories[c].keywords
      byKey == IF Includes(categoryName, key) \/ Includes(key, categoryName)
               THEN {Min(Len(key), Len(categoryName))} ELSE {}
      byKeyword == {Len(kws[k]) : k \in {j \in 1..Len(kws) :
                                           Includes(categoryName, kws[j])}}
  IN MaxOf(byKey \cup byKeyword \cup {0})

NoCategory == "null"

\* The loop of processBudget: the first category, in declared order, that
\* reaches the highest score above zero.
bestCategory(categoryName) ==
  LET C    == 1..Len(expenseCategories)
      best == MaxOf({categoryScore(c, categoryName) : c \in C})
  IN IF best = 0 THEN NoCategory
     ELSE expenseCategories[MinOf({c \in C :
             categoryScore(c, categoryName) = best})].category

\* What processBudget decides for a message: the budget status, an update
\* of a category, or no category found.
budgetRequest(msgText) ==
  With(toLowerCase(msgText), LAMBDA text :
  With(budgetPattern(text), LAMBDA categoryMatch :
     IF Includes(text, budgetWords.ver) \/ Includes(text, budgetWords.estado)
        \/ Includes(text, budgetWords.consultar)
     THEN [kind |-> "status", category |-> NoCategory, amount |-> 0]
     ELSE IF ~categoryMatch.ok
     THEN [kind |-> "status", category |-> NoCategory, amount |-> 0]
     ELSE LET categoryName == toLowerCase(trim(categoryMatch.name))
              amount == parseFloat(replaceFirstComma(categoryMatch.amount))
              cat    == bestCategory(categoryName)
          IN IF cat # NoCategory
             THEN [kind |-> "update", category |-> cat, amount |-> amount]
             ELSE [kind |-> "unknown", category |-> NoCategory, amount |-> 0]))

(***************************************************************************)
(* Concept, merchant and items                                              *)
(***************************************************************************)

\* s.charAt(0).toUpperCase() + s.slice(1)
capitalize(s) ==
  LET toUpperChar(c) ==
        IF \E k \in 1..Len(LowerCase) : LowerCase[k] = c
        THEN UpperCase[CHOOSE k \in 1..Len(LowerCase) : LowerCase[k] = c]
        ELSE c
  IN IF s = << >> THEN s ELSE << toUpperChar(s[1]) >> \o Tail(s)

\* Length of the longest run of [\wáéíóúüñ\s] (under the flag i) that starts
\* at position i.
conceptRun(t, i) ==
  LET IsConceptChar(c) ==
        \/ IsSpace(c) \/ IsDigit(c) \/ c \in {"_", "ü", "Ü"}
        \/ \E k \in 1..Len(LowerCase) : c \in {LowerCase[k], UpperCase[k]}
  IN CHOOSE n \in 0..(Len(t) + 1 - i) :
       /\ \A k \in i..(i + n - 1) : IsConceptChar(t[k])
       /\ ~IsConceptChar(CharAt(t, i + n))

\* /\s*([\wáéíóúüñ\s]+)/ tried at position p: the group.  \s* takes the
\* white space; when nothing of the class follows it, it gives its last
\* character back to the group.  The empty sequence when there is no match.
conceptGroupAt(t, p) ==
  With(SkipSpace(t, p), LAMBDA q :
    IF conceptRun(t, q) >= 1 THEN SubSeq(t, q, q + conceptRun(t, q) - 1)
    ELSE IF q > p THEN SubSeq(t, q - 1, q - 1)
    ELSE << >>)

\* The last group of `${prep}\s+(el|la|los|las)?\s*([\wáéíóúüñ\s]+)` tried at
\* position i; the alternatives of `articles` are tried in their order, then
\* the pattern without an article.  The income patterns have no articles.
conceptPatternAt(t, i, prep, articles) ==
  IF ~HasAt(t, i, prep) THEN << >>
  ELSE
    With(i + Len(prep), LAMBDA a :
    With(SkipSpace(t, a), LAMBDA b :
    With({k \in 1..Len(articles) :
            /\ HasAt(t, b, articles[k])
            /\ conceptGroupAt(t, b + Len(articles[k])) # << >>}, LAMBDA A :
      IF b = a THEN << >>
      ELSE IF A # {}
        THEN conceptGroupAt(t, b + Len(articles[MinOf(A)]))
      ELSE IF conceptRun(t, b) >= 1
        THEN SubSeq(t, b, b + conceptRun(t, b) - 1)
      ELSE IF b - 1 > a THEN SubSeq(t, b - 1, b - 1)
      ELSE << >>)))

\* /\$?\s*[0-9.,]+\s*(?:pesos)?$/ matches c from position i to its end
amountTailAt(c, i) ==
  LET b == SkipSpace(c, IF c[i] = "$" THEN i + 1 ELSE i)
      e == SkipSpace(c, b + NumRun(c, b))
  IN /\ NumRun(c, b) >= 1
     /\ \/ e = Len(c) + 1
        \/ HasAt(c, e, amountWords.pesos) /\ e + Len(amountWords.pesos) = Len(c) + 1

\* /\d{1,2}[\/\-\.]\d{1,2}(?:[\/\-\.]\d{2,4})?$/ matches c from position i
\* to its end
dateTailAt(c, i) ==
  \E n1 \in 1..2, n2 \in 1..2 :
    /\ \A k \in i..(i + n1 - 1) : IsDigit(CharAt(c, k))
    /\ IsDateSep(CharAt(c, i + n1))
    /\ \A k \in (i + n1 + 1)..(i + n1 + n2) : IsDigit(CharAt(c, k))
    /\ \/ i + n1 + n2 = Len(c)
       \/ \E n3 \in 2..4 :
            /\ IsDateSep(CharAt(c, i + n1 + n2 + 1))
            /\ \A k \in (i + n1 + n2 + 2)..(i + n1 + n2 + 1 + n3) :
                 IsDigit(CharAt(c, k))
            /\ i + n1 + n2 + 1 + n3 = Len(c)

\* c.replace(/...$/, '').trim(), TailAt telling where the pattern matches
removeTail(c, TailAt(_, _)) ==
  With({i \in 1..Len(c) : TailAt(c, i)}, LAMBDA S :
    IF S = {} THEN trim(c) ELSE trim(SubSeq(c, 1, MinOf(S) - 1)))

\* The concept one preposition gives: the group of its leftmost match,
\* trimmed, without a trailing amount and (withDate) a trailing date; the
\* empty sequence when the pattern does not match.
conceptFor(t, prep, articles, withDate) ==
  With({i \in 1..Len(t) : conceptPatternAt(t, i, prep, articles) # << >>},
       LAMBDA S :
    IF S = {} THEN << >>
    ELSE
      With(removeTail(trim(conceptPatternAt(t, MinOf(S), prep, articles)),
                      amountTailAt), LAMBDA concept :
        IF withDate THEN removeTail(concept, dateTailAt) ELSE concept))

\* The loop over the prepositions: the first one whose concept is not empty
firstConcept(t, preps, articles, withDate) ==
  LET from[k \in 1..(Len(preps) + 1)] ==
        IF k > Len(preps) THEN << >>
        ELSE With(conceptFor(t, preps[k], articles, withDate),
                  LAMBDA concept :
                    IF concept # << >> THEN concept ELSE from[k + 1])
  IN from[1]

\* The category as a string of characters, its first letter in upper case
categoryLabel(categoria) ==
  capitalize(expenseCategories[CHOOSE k \in 1..Len(expenseCategories) :
                 expenseCategories[k].category = categoria].key)

\* extractConceptFromText of utils/textProcessing
extractConceptFromText(text, tipo) ==
  LET isFreelance(t) ==  \* includes('freelance') || includes('proyecto')
        \/ Includes(t, << "f", "r", "e", "e", "l", "a", "n", "c", "e" >>)
        \/ Includes(t, << "p", "r", "o", "y", "e", "c", "t", "o" >>)
  IN
  With(toLowerCase(text), LAMBDA textLower :
  With(firstConcept(textLower, << amountWords.en, amountWords.de, budgetWords.para, amountWords.por, budgetWords.a >>,
                    << dateWords.el, << "l", "a" >>, << "l", "o", "s" >>,
                       << "l", "a", "s" >> >>, TRUE), LAMBDA concept :
    IF concept # << >> THEN capitalize(concept)
    ELSE IF tipo = "ingreso" THEN
      With(firstConcept(textLower, << amountWords.por, amountWords.de >>, << >>, FALSE),
           LAMBDA income :
        IF income # << >> THEN
          IF isFreelance(income)
          THEN << "F", "r", "e", "e", "l", "a", "n", "c", "e", ":", " " >>
                 \o capitalize(income)
          ELSE capitalize(income)
        ELSE IF isFreelance(textLower)
          THEN << "F", "r", "e", "e", "l", "a", "n", "c", "e" >>
        ELSE << "I", "n", "g", "r", "e", "s", "o", " ",
                "v", "a", "r", "i", "a", "b", "l", "e" >>)
    ELSE With(categorizeExpense(text), LAMBDA categoria :
      IF categoria # "otros" THEN categoryLabel(categoria)
      ELSE << "N", "o", " ", "e", "s", "p", "e", "c", "i", "f", "i", "c",
              "a", "d", "o" >>)))

\* processText of utils/textProcessing; forcedIntent is NullIntent when the
\* argument is absent; now is `new Date()`.
processText(text, forcedIntent, now) ==
  With(toLowerCase(text), LAMBDA textLower :
  With(IF forcedIntent # NullIntent THEN forcedIntent
       ELSE detectIntent(textLower), LAMBDA tipo :
    [tipo           |-> tipo,
     monto          |-> extractAmountFromText(text),
     fecha          |-> extractDateFromText(text, now),
     concepto       |-> extractConceptFromText(text, tipo),
     categoria      |-> IF tipo = "gasto" THEN categorizeExpense(text)
                        ELSE "ingreso",
     texto_completo |-> text]))

\* text.split('\n')
splitLines(t) ==
  With({k \in 1..Len(t) : t[k] = "\n"} \cup {Len(t) + 1}, LAMBDA E :
    LET lineFrom[s \in 1..(Len(t) + 2)] ==
          IF s = Len(t) + 2 THEN << >>
          ELSE With(MinOf({e \in E : e >= s}), LAMBDA e :
                 << SubSeq(t, s, e - 1) >> \o lineFrom[e + 1])
    IN lineFrom[1])

\* The tests of extractMerchant on one of the first lines: no 'factura' or
\* 'ticket', no /^\d+/, no /total|importe|fecha|iva|rut|nit/i, and the length
isMerchantName(line) ==
  /\ ~Includes(toLowerCase(line), << "f", "a", "c", "t", "u", "r", "a" >>)
  /\ ~Includes(toLowerCase(line), << "t", "i", "c", "k", "e", "t" >>)
  /\ ~IsDigit(CharAt(line, 1))
  /\ ~\E w \in {receiptWords.total, receiptWords.importe, dateWords.fecha, << "i", "v", "a" >>,
                 << "r", "u", "t" >>, << "n", "i", "t" >>} :
         Includes(toLowerCase(line), w)
  /\ Len(line) > 3
  /\ Len(line) < 40

\* extractMerchant of the receipt controller
extractMerchant(text) ==
  With(SelectSeq(splitLines(text), LAMBDA line : trim(line) # << >>),
       LAMBDA lines :
  With({k \in 1..Min(5, Len(lines)) : isMerchantName(lines[k])}, LAMBDA K :
    IF K # {} THEN trim(lines[MinOf(K)])
    ELSE With(categorizeExpense(text), LAMBDA categoria :
      IF categoria # "otros" THEN categoryLabel(categoria)
      ELSE << "C", "o", "m", "e", "r", "c", "i", "o", " ", "n", "o", " ",
              "i", "d", "e", "n", "t", "i", "f", "i", "c", "a", "d", "o" >>)))

\* /\s+[\$€]?\s*([0-9.,]+)$/ matches the line from position p to its end:
\* the position of the group, or 0
priceAt(line, p) ==
  LET b == SkipSpace(line, p)
      c == SkipSpace(line, IF IsCurrency(CharAt(line, b)) THEN b + 1 ELSE b)
  IN IF /\ b > p
        /\ NumRun(line, c) >= 1
        /\ c + NumRun(line, c) = Len(line) + 1
     THEN c ELSE 0

\* itemsOfLine, were the lines of totals kept.
itemsOfLine_mut(line) ==
  With(trim(line), LAMBDA trimmedLine :
  With({e \in 1..Len(trimmedLine) : priceAt(trimmedLine, e + 1) > 0},
       LAMBDA E :
    IF E = {} THEN << >>
    ELSE
      With(MaxOf(E), LAMBDA e :
      With(trim(SubSeq(trimmedLine, 1, e)), LAMBDA name :
        IF Len(name) > 2
        THEN << [nombre |-> name,
                 precio |-> replaceFirstComma(
                              SubSeq(trimmedLine, priceAt(trimmedLine, e + 1),
                                     Len(trimmedLine)))] >>
        ELSE << >>))))

\* The items of one line: trimmedLine.match(/(.+)\s+[\$€]?\s*([0-9.,]+)$/),
\* (.+) as long as it can be, and the tests on the name
itemsOfLine(line) ==
  With(trim(line), LAMBDA trimmedLine :
  With({e \in 1..Len(trimmedLine) : priceAt(trimmedLine, e + 1) > 0},
       LAMBDA E :
    IF E = {} THEN << >>
    ELSE
      With(MaxOf(E), LAMBDA e :
      With(trim(SubSeq(trimmedLine, 1, e)), LAMBDA name :
        IF /\ Len(name) > 2
           /\ ~Includes(toLowerCase(name), receiptWords.total)
           /\ ~Includes(toLowerCase(name), << "i", "v", "a" >>)
           /\ ~Includes(toLowerCase(name),
                        << "s", "u", "b" >> \o receiptWords.total)
        THEN << [nombre |-> name,
                 precio |-> replaceFirstComma(
                              SubSeq(trimmedLine, priceAt(trimmedLine, e + 1),
                                     Len(trimmedLine)))] >>
        ELSE << >>))))

\* extractItems, were the loop left at the first item.
extractItems_mut(text) ==
  With(splitLines(text), LAMBDA lines :
    LET items[k \in 0..Len(lines)] ==
          IF k = 0 THEN << >>
          ELSE IF items[k - 1] # << >> THEN items[k - 1]
          ELSE itemsOfLine(lines[k])
    IN items[Len(lines)])

\* extractItems of the receipt controller
extractItems(text) ==
  With(splitLines(text), LAMBDA lines :
    LET items[k \in 0..Len(lines)] ==
          IF k = 0 THEN << >> ELSE items[k - 1] \o itemsOfLine(lines[k])
    IN items[Len(lines)])

(***************************************************************************)
(* The store of database.js                                                 *)
(***************************************************************************)

\* config.monthlyBudget
monthlyBudget ==
  ("supermercado" :> Num(450000)) @@ ("restaurante" :> Num(300000)) @@
  ("transporte" :> Num(200000)) @@ ("servicios" :> Num(310000)) @@
  ("entretenimiento" :> Num(150000)) @@ ("salud" :> Num(100000)) @@
  ("tecnología" :> Num(200000)) @@ ("snacks" :> Num(80000)) @@
  ("educación" :> Num(400000)) @@ ("otros" :> Num(100000))

\* The document initDatabase writes when there is no file.  Fixed expenses,
\* fixed incomes and goals are never written by the code modelled here.
initDatabase(budget) == [transactions |-> << >>, budget |-> budget]

\* loadDatabase: the parsed file, or the fallback document when reading or
\* parsing fails (ok = FALSE).  The fallback holds config.monthlyBudget
\* itself, not a copy; budget is its current value.
loadDatabase(f, budget, ok) ==
  IF ok THEN f ELSE [transactions |-> << >>, budget |-> budget]

\* saveDatabase: the file after the call; a failed write (ok = FALSE) is
\* caught and leaves the file as it was.
saveDatabase(f, data, ok) == IF ok THEN data ELSE f

\* registerTransaction, were the document loaded once, when the process
\* starts, and not on every call.
registerTransaction_mut(f, budget, data, loadOk, saveOk) ==
  saveDatabase(f, [initDatabase(monthlyBudget) EXCEPT
                     !.transactions = Append(@, data)], saveOk)

\* registerTransaction: the file after the call
registerTransaction(f, budget, data, loadOk, saveOk) ==
  LET db == loadDatabase(f, budget, loadOk)
  IN saveDatabase(f, [db EXCEPT !.transactions = Append(@, data)], saveOk)

(***************************************************************************)
(* The bot                                                                  *)
(***************************************************************************)

\* Bounds of the model
MaxMsgs == 3
MaxFrags == 2
MaxPhotos == 1

VARIABLES
  today,      \* the processing date, a day number
  file,       \* the content of config.DB_FILE
  cfgBudget,  \* config.monthlyBudget, in memory
  inbox,      \* history: the messages received, in order of arrival
  photos,     \* message number -> position of its receipt handler
  tempFiles,  \* the message numbers whose temporary image exists
  replies,    \* the messages sent to the user, in order
  input,      \* input of the extractors when they are exercised alone
  out         \* what the last extractor call returned

vars == << today, file, cfgBudget, inbox, photos, tempFiles, replies,
           input, out >>

botVars == << file, cfgBudget, inbox, photos, tempFiles, replies >>

NoOut == [fn |-> "none"]

Reply(id, kind) == [msg |-> id, kind |-> kind]

\* msg.text.startsWith('/')
isCommand(t) == CharAt(t, 1) = "/"

\* hasAmount, were the amount not looked at.
hasAmount_mut(textData) == TRUE

\* `textData && textData.monto` of processExpenseOrIncome
hasAmount(textData) == textData.monto # Null

\* The record handed to registerTransaction for message id.  msg stands for
\* the identity of the record (its timestamp).
Stored(data, id, origin) ==
  [msg |-> id, origin |-> origin, tipo |-> data.tipo, monto |-> data.monto,
   fecha |-> data.fecha, categoria |-> data.categoria,
   texto_completo |-> data.texto_completo]

\* processReceipt: the record built from the text the OCR returned
processReceipt(extractedText, now) ==
  [tipo           |-> "gasto",
   texto_completo |-> extractedText,
   monto          |-> extractAmount(extractedText),
   fecha          |-> extractDate(extractedText, now),
   concepto       |-> extractMerchant(extractedText),
   categoria      |-> categorizeExpense(extractedText),
   items          |-> extractItems(extractedText)]

InFlight == {"getFile", "download", "write", "ocr"}

BotInit ==
  /\ file = initDatabase(monthlyBudget)
  /\ cfgBudget = monthlyBudget
  /\ inbox = << >>
  /\ photos = << >>
  /\ tempFiles = {}
  /\ replies = << >>

\* The chat messages of the model
m_gasto ==
  << "G", "a", "s", "t", "é", " ", "$", "4", "5", "0", "0", "0", " ", "e",
     "n", " ", "e", "l", " ", "s", "u", "p", "e", "r", "m", "e", "r", "c",
     "a", "d", "o", " ", "a", "y", "e", "r" >>

m_gastoSinMonto ==
  << "G", "a", "s", "t", "é", " ", "m", "u", "c", "h", "o", " ", "e", "n",
     " ", "e", "l", " ", "b", "a", "r" >>

m_ingreso ==
  << "R", "e", "c", "i", "b", "í", " ", "$", "5", "0", "0", "0", "0", "0",
     " ", "d", "e", " ", "p", "r", "o", "y", "e", "c", "t", "o", " ", "f",
     "r", "e", "e", "l", "a", "n", "c", "e" >>

m_hola ==
  << "h", "o", "l", "a" >>

m_presupuesto ==
  << "p", "r", "e", "s", "u", "p", "u", "e", "s", "t", "o", " ", "p", "a",
     "r", "a", " ", "s", "u", "p", "e", "r", " ", "1", "0", "0", "0", "0",
     "0" >>

m_presupuestoOtra ==
  << "a", "s", "i", "g", "n", "a", "r", " ", "a", " ", "x", "y", "z", " ",
     "1", "2", ",", "5" >>

m_verPresupuesto ==
  << "v", "e", "r", " ", "p", "r", "e", "s", "u", "p", "u", "e", "s", "t",
     "o" >>

m_reporte ==
  << "Q", "u", "i", "e", "r", "o", " ", "v", "e", "r", " ", "m", "i", " ",
     "r", "e", "p", "o", "r", "t", "e", " ", "d", "e", "l", " ", "m", "e",
     "s" >>

m_meta ==
  << "m", "e", "t", "a", " ", "v", "i", "a", "j", "e" >>

m_cmdHelp ==
  << "/", "H", "E", "L", "P", " ", "m", "e" >>

\* The texts the OCR returns in the model
o_total ==
  << "T", "O", "T", "A", "L", " ", "$", " ", "2", "3", ".", "5", "0", "0",
     "\n", "L", "e", "c", "h", "e", " ", "3", ".", "2", "0", "0" >>

o_sinMonto ==
  << "C", "A", "F", "E", " ", "L", "U", "N", "A", "\n", "F", "E", "C", "H",
     "A", ":", " ", "2", "0", "2", "4", "-", "0", "3", "-", "0", "9" >>

\* The words the extractor inputs are made of
Frags ==
  { << "h", "o", "l", "a" >>,
    << "G", "a", "s", "t", "é" >>,
    << "c", "o", "b", "r", "é" >>,
    << "$", "4", "5" >>,
    << "a", "y", "e", "r" >>,
    << "a", "n", "t", "e", "a", "y", "e", "r" >>,
    << "h", "o", "y" >>,
    << "e", "l" >>,
    << "4", "5", "/", "1", "3" >>,
    << "1", "/", "2", "/", "2", "4" >>,
    << "F", "E", "C", "H", "A", ":" >>,
    << "2", "0", "2", "4", "-", "0", "3", "-", "0", "9" >> }

BotTexts == { m_gasto, m_gastoSinMonto, m_ingreso, m_hola, m_presupuesto,
              m_presupuestoOtra, m_verPresupuesto, m_reporte, m_meta,
              m_cmdHelp }

OcrTexts == { o_total, o_sinMonto }

\* The processing date of the bot in the model
BotDay == MakeDay(2024, 2, 10)

\* The extractors are functions of the message alone (and of the date), so
\* what they return for the messages of the model is computed once, as
\* sets of records [key |-> message, val |-> result].
Lookup(table, t) == (CHOOSE r \in table : r.key = t).val

intentTable == {[key |-> t, val |-> getIntent(t)] : t \in BotTexts}

intentOf(t) == Lookup(intentTable, t)

textDataTable ==
  {[key |-> t, val |-> processText(t, intentOf(t), BotDay)] : t \in BotTexts}

textDataOf(t) == Lookup(textDataTable, t)

budgetRequestTable == {[key |-> t, val |-> budgetRequest(t)] : t \in BotTexts}

budgetRequestOf(t) == Lookup(budgetRequestTable, t)

receiptDataTable == {[key |-> t, val |-> processReceipt(t, BotDay)] : t \in OcrTexts}

receiptDataOf(t) == Lookup(receiptDataTable, t)

\* new Date(today.getFullYear(), today.getMonth(), 1) for the processing
\* dates of the model, computed once
startOfMonthTable ==
  {[key |-> d, val |-> MakeDay(getFullYear(d), getMonth(d), 1)] :
     d \in {BotDay}}

(***************************************************************************)
(* checkBudgetAlert                                                         *)
(***************************************************************************)

NoAlert == [level |-> "null"]

\* new Date(t.fecha) of a date written by formatDate, as a day number
dateOfString(s) ==
  MakeDay(parseInt(SubSeq(s, 1, 4)), parseInt(SubSeq(s, 6, 7)) - 1,
          parseInt(SubSeq(s, 9, 10)))

\* totalSpent of checkBudgetAlert: the amounts of the stored expenses of the
\* category of data dated from the first of the month of now to now, plus
\* the amount of data.  A sum with NaN is NaN.  The first of the month is
\* read from startOfMonthTable.
totalSpent(db, data, now) ==
  With(Lookup(startOfMonthTable, now), LAMBDA startOfMonth :
    LET inMonth(t) == With(dateOfString(t.fecha), LAMBDA transDate :
                        /\ t.tipo = "gasto"
                        /\ t.categoria = data.categoria
                        /\ transDate >= startOfMonth
                        /\ transDate <= now)
        plus(a, b) == IF a = NaN \/ b = NaN THEN NaN ELSE a + b
        sum[k \in 0..Len(db.transactions)] ==
          IF k = 0 THEN 0
          ELSE IF inMonth(db.transactions[k])
               THEN plus(sum[k - 1], parseFloat(db.transactions[k].monto))
               ELSE sum[k - 1]
    IN plus(sum[Len(db.transactions)], parseFloat(data.monto)))

\* checkBudgetAlert(data) over the document db that its loadDatabase
\* returns: no alert, the limit reached (75 % of it and more; the message
\* also shows the rounded percentage) or exceeded (100 % and more).
checkBudgetAlert(db, data, now) ==
  IF data.tipo # "gasto" \/ data.categoria = NoCategory THEN NoAlert
  ELSE IF data.categoria \notin DOMAIN db.budget THEN NoAlert
  ELSE With(db.budget[data.categoria], LAMBDA budgeted :
       With(totalSpent(db, data, now), LAMBDA total :
         IF budgeted = 0 \/ budgeted = NaN \/ total = NaN THEN NoAlert
         ELSE IF total >= budgeted THEN [level |-> "exceeded"]
         ELSE IF 4 * total >= 3 * budgeted THEN [level |-> "reached"]
         ELSE NoAlert))

\* msg.text.split(' ')[0].toLowerCase()
commandOf(t) ==
  LET K == {k \in 1..Len(t) : t[k] = " "}
  IN toLowerCase(IF K = {} THEN t ELSE SubSeq(t, 1, MinOf(K) - 1))

\* handleCommands: the kind of the message it sends
handleCommands(t) ==
  LET command == commandOf(t)
  IN CASE command \in { << "/", "s", "t", "a", "r", "t" >>,
                        << "/", "h", "e", "l", "p" >>,
                        << "/", "a", "d", "d", "_", "m", "e", "t", "a" >>,
                        << "/", "a", "d", "d", "_", "i", "n", "g", "r", "e", "s", "o" >> }
            -> "info"
       [] command \in { << "/", "r", "e", "p", "o", "r", "t", "e" >>,
                        << "/", "r", "e", "p", "o", "r", "t", "e", "_", "s", "e", "m", "a", "n", "a", "l" >>,
                        << "/", "r", "e", "p", "o", "r", "t", "e", "_", "m", "e", "n", "s", "u", "a", "l" >> }
            -> "report"
       [] command = << "/", "m", "e", "t", "a", "s" >> -> "goals"
       [] command = << "/", "p", "r", "e", "s", "u", "p", "u", "e", "s", "t", "o" >>
            -> "budgetStatus"
       [] command = << "/", "g", "a", "s", "t", "o", "s", "f", "i", "j", "o", "s" >>
            -> "fixedExpenses"
       [] command = << "/", "i", "n", "g", "r", "e", "s", "o", "s" >>
            -> "incomeStatus"
       [] OTHER -> "unknownCommand"

commandReplyTable == {[key |-> t, val |-> handleCommands(t)] : t \in BotTexts}

commandReplyOf(t) == Lookup(commandReplyTable, t)

Arrive(m) ==
  /\ Len(inbox) < MaxMsgs
  /\ inbox' = Append(inbox, m)

TextMsg(t) == [kind |-> "text", text |-> t]

PhotoMsg == [kind |-> "photo", text |-> << >>]

\* The document the loadDatabase of checkBudgetAlert returns after a
\* registration that left the file as saved: the handler is synchronous, so
\* the file is read as the save wrote it, or, when nothing was written, as
\* the load of the registration read it.
reloadDatabase(saved, budget, loadOk, saveOk) ==
  loadDatabase(saved, budget, saveOk \/ loadOk)

\* A text message routed by processTextMessage to processExpenseOrIncome.
\* The confirmation carries the budget alert, evaluated after the
\* registration and for expenses only.
ExpenseOrIncome(t, loadOk, saveOk) ==
  /\ ~isCommand(t)
  /\ intentOf(t) \in {"gasto", "ingreso"}
  /\ Arrive(TextMsg(t))
  /\ \E textData \in {textDataOf(t)} :
       IF hasAmount(textData)
       THEN \E saved \in {registerTransaction(file, cfgBudget,
                            Stored(textData, Len(inbox) + 1, "text"),
                            loadOk, saveOk)} :
            \E budgetAlert \in
                 {IF intentOf(t) = "gasto"
                  THEN checkBudgetAlert(
                         reloadDatabase(saved, cfgBudget, loadOk, saveOk),
                         textData, today)
                  ELSE NoAlert} :
              /\ file' = saved
              /\ replies' = Append(replies,
                   [msg |-> Len(inbox) + 1, kind |-> "registered",
                    alert |-> budgetAlert])
       ELSE /\ file' = file
            /\ replies' = Append(replies, Reply(Len(inbox) + 1, "clarify"))
  /\ UNCHANGED << today, cfgBudget, photos, tempFiles, input, out >>

\* A text message routed to processBudget.  On an update the document that
\* was loaded gets the new limit and is saved; when the load failed that
\* document holds config.monthlyBudget itself, which is changed with it.
ProcessBudget(t, loadOk, saveOk) ==
  LET id  == Len(inbox) + 1
      req == budgetRequestOf(t)
      db  == loadDatabase(file, cfgBudget, loadOk)
      upd == [db EXCEPT !.budget[req.category] = req.amount]
  IN /\ ~isCommand(t)
     /\ intentOf(t) = "presupuesto"
     /\ Arrive(TextMsg(t))
     /\ CASE req.kind = "update" ->
               /\ file' = saveDatabase(file, upd, saveOk)
               /\ cfgBudget' = IF loadOk THEN cfgBudget ELSE upd.budget
               /\ replies' = Append(replies, Reply(id, "budgetUpdated"))
          [] req.kind = "unknown" ->
               /\ replies' = Append(replies, Reply(id, "budgetUnknown"))
               /\ UNCHANGED << file, cfgBudget >>
          [] req.kind = "status" ->
               /\ replies' = Append(replies, Reply(id, "budgetStatus"))
               /\ UNCHANGED << file, cfgBudget >>
     /\ UNCHANGED << today, photos, tempFiles, input, out >>

\* A text message routed to sendReport: the store is read, never written.
SendReport(t) ==
  /\ ~isCommand(t)
  /\ intentOf(t) = "reporte"
  /\ Arrive(TextMsg(t))
  /\ replies' = Append(replies, Reply(Len(inbox) + 1, "report"))
  /\ UNCHANGED << today, file, cfgBudget, photos, tempFiles, input, out >>

\* A text message routed to the goal controller, whose code is not among
\* the sources: it answers, and the transactions are left alone.
ProcessGoal(t) ==
  /\ ~isCommand(t)
  /\ intentOf(t) = "meta"
  /\ Arrive(TextMsg(t))
  /\ replies' = Append(replies, Reply(Len(inbox) + 1, "goal"))
  /\ UNCHANGED << today, file, cfgBudget, photos, tempFiles, input, out >>

\* A text message with no intent: the default branch of processTextMessage.
UnknownIntent(t) ==
  /\ ~isCommand(t)
  /\ intentOf(t) = NullIntent
  /\ Arrive(TextMsg(t))
  /\ replies' = Append(replies, Reply(Len(inbox) + 1, "unknownIntent"))
  /\ UNCHANGED << today, file, cfgBudget, photos, tempFiles, input, out >>

\* A command: every branch of handleCommands reads at most the store.
Command(t) ==
  /\ isCommand(t)
  /\ Arrive(TextMsg(t))
  /\ replies' = Append(replies, Reply(Len(inbox) + 1, commandReplyOf(t)))
  /\ UNCHANGED << today, file, cfgBudget, photos, tempFiles, input, out >>

\* A photo arrives: handlePhoto sends the notice and processReceiptPhoto
\* runs up to its first await.
ReceivePhoto ==
  LET id == Len(inbox) + 1
  IN /\ Cardinality(DOMAIN photos) < MaxPhotos
     /\ Arrive(PhotoMsg)
     /\ replies' = Append(replies, Reply(id, "processing"))
     /\ photos' = (id :> "getFile") @@ photos
     /\ UNCHANGED << today, file, cfgBudget, tempFiles, input, out >>

\* Rejected, were the catch block to store a record of the failed receipt.
Rejected_mut(id) ==
  /\ photos' = [photos EXCEPT ![id] = "failed"]
  /\ file' = registerTransaction(file, cfgBudget,
                [msg |-> id, origin |-> "receipt", tipo |-> "gasto",
                 monto |-> Null, fecha |-> formatDate(today),
                 categoria |-> "otros", texto_completo |-> << >>],
                TRUE, TRUE)
  /\ replies' = Append(replies, Reply(id, "receiptError"))
  /\ UNCHANGED << today, cfgBudget, inbox, input, out >>

\* The promise of processReceiptPhoto is rejected: the catch block of
\* handlePhoto sends the error message.
Rejected(id) ==
  /\ photos' = [photos EXCEPT ![id] = "failed"]
  /\ replies' = Append(replies, Reply(id, "receiptError"))
  /\ UNCHANGED << today, file, cfgBudget, inbox, input, out >>

\* bot.getFile settles.
GetFile(id, ok) ==
  /\ id \in DOMAIN photos /\ photos[id] = "getFile"
  /\ IF ok
     THEN /\ photos' = [photos EXCEPT ![id] = "download"]
          /\ UNCHANGED << today, file, cfgBudget, inbox, replies, input, out >>
     ELSE Rejected(id)
  /\ UNCHANGED tempFiles

\* The axios request settles; on success the write stream is created and
\* the response is piped into it.
Download(id, ok) ==
  /\ id \in DOMAIN photos /\ photos[id] = "download"
  /\ IF ok
     THEN /\ photos' = [photos EXCEPT ![id] = "write"]
          /\ UNCHANGED << today, file, cfgBudget, inbox, replies, input, out >>
     ELSE Rejected(id)
  /\ UNCHANGED tempFiles

\* The pipe ends: the writer finishes and the OCR starts, or the writer
\* fails and the promise is rejected, or the response stream fails, on which
\* nothing listens, and the promise never settles.
WriteImage(id, how, created) ==
  /\ id \in DOMAIN photos /\ photos[id] = "write"
  /\ CASE how = "finish" ->
            /\ photos' = [photos EXCEPT ![id] = "ocr"]
            /\ tempFiles' = tempFiles \cup {id}
            /\ UNCHANGED << today, file, cfgBudget, inbox, replies, input,
                            out >>
       [] how = "writerError" ->
            /\ Rejected(id)
            /\ tempFiles' = IF created THEN tempFiles \cup {id} ELSE tempFiles
       [] how = "sourceError" ->
            /\ photos' = [photos EXCEPT ![id] = "hung"]
            /\ tempFiles' = IF created THEN tempFiles \cup {id} ELSE tempFiles
            /\ UNCHANGED << today, file, cfgBudget, inbox, replies, input,
                            out >>

\* processReceipt settles.  When the OCR succeeds the temporary file is
\* removed, the promise resolves and handlePhoto registers the record and
\* sends it; when the OCR or the removal throws, the promise is rejected.
Ocr(id, how, extractedText, loadOk, saveOk) ==
  /\ id \in DOMAIN photos /\ photos[id] = "ocr"
  /\ IF how = "ok"
     THEN \E receiptData \in {receiptDataOf(extractedText)} :
          \E saved \in {registerTransaction(file, cfgBudget,
                          Stored(receiptData, id, "receipt"),
                          loadOk, saveOk)} :
          \E budgetAlert \in
               {checkBudgetAlert(
                  reloadDatabase(saved, cfgBudget, loadOk, saveOk),
                  receiptData, today)} :
            /\ photos' = [photos EXCEPT ![id] = "done"]
            /\ tempFiles' = tempFiles \ {id}
            /\ file' = saved
            /\ replies' = Append(replies,
                 [msg |-> id, kind |-> "receipt", alert |-> budgetAlert])
            /\ UNCHANGED << today, cfgBudget, inbox, input, out >>
     ELSE /\ Rejected(id)
          /\ UNCHANGED tempFiles

BotNext ==
  \/ \E t \in BotTexts, loadOk \in BOOLEAN, saveOk \in BOOLEAN :
       \/ ExpenseOrIncome(t, loadOk, saveOk)
       \/ ProcessBudget(t, loadOk, saveOk)
  \/ \E t \in BotTexts :
       \/ SendReport(t)
       \/ ProcessGoal(t)
       \/ UnknownIntent(t)
       \/ Command(t)
  \/ ReceivePhoto
  \/ \E id \in DOMAIN photos, ok \in BOOLEAN :
       \/ GetFile(id, ok)
       \/ Download(id, ok)
  \/ \E id \in DOMAIN photos, created \in BOOLEAN,
        how \in {"finish", "writerError", "sourceError"} :
       WriteImage(id, how, created)
  \/ \E id \in DOMAIN photos, how \in {"ok", "ocrError", "unlinkError"},
        t \in OcrTexts, loadOk \in BOOLEAN, saveOk \in BOOLEAN :
       Ocr(id, how, t, loadOk, saveOk)

\* The processing dates of the model: around the turn of a year, the end of
\* February in a leap year and in a common year, and the middle of a month.
TodayCivil ==
  { << 2023, 12, 31 >>, << 2024, 1, 1 >>, << 2024, 1, 2 >>,
    << 2024, 2, 29 >>, << 2024, 3, 1 >>, << 2025, 3, 1 >>,
    << 2024, 3, 10 >> }

\* new Date(y, m - 1, d) for each of them
Todays == {MakeDay(c[1], c[2] - 1, c[3]) : c \in TodayCivil}

Init ==
  /\ BotInit
  /\ today = BotDay
  /\ input = << >>
  /\ out = NoOut

Next == BotNext

Spec == Init /\ [][Next]_vars

\* The bot on a file system whose reads and writes of the store succeed
ReliableNext ==
  \/ \E t \in BotTexts :
       \/ ExpenseOrIncome(t, TRUE, TRUE)
       \/ ProcessBudget(t, TRUE, TRUE)
       \/ SendReport(t)
       \/ ProcessGoal(t)
       \/ UnknownIntent(t)
       \/ Command(t)
  \/ ReceivePhoto
  \/ \E id \in DOMAIN photos, ok \in BOOLEAN :
       \/ GetFile(id, ok)
       \/ Download(id, ok)
  \/ \E id \in DOMAIN photos, created \in BOOLEAN,
        how \in {"finish", "writerError", "sourceError"} :
       WriteImage(id, how, created)
  \/ \E id \in DOMAIN photos, how \in {"ok", "ocrError", "unlinkError"},
        t \in OcrTexts :
       Ocr(id, how, t, TRUE, TRUE)

SpecReliable == Init /\ [][ReliableNext]_vars

\* A step of a receipt handler: a pending call or stream of
\* processReceiptPhoto settles and the continuation runs.
PhotoStep ==
  \E id \in DOMAIN photos :
    \/ \E ok \in BOOLEAN : GetFile(id, ok) \/ Download(id, ok)
    \/ \E created \in BOOLEAN,
          how \in {"finish", "writerError", "sourceError"} :
         WriteImage(id, how, created)
    \/ \E how \in {"ok", "ocrError", "unlinkError"}, t \in OcrTexts,
          loadOk \in BOOLEAN, saveOk \in BOOLEAN :
         Ocr(id, how, t, loadOk, saveOk)

\* The bot with an event loop that runs every continuation that is due: a
\* request, a stream or the OCR that a handler waits for ends, well or badly,
\* and the handler goes on.
SpecLive == Init /\ [][Next]_vars /\ WF_vars(PhotoStep)

(***************************************************************************)
(* The extractors exercised alone, on texts made of the words of Frags      *)
(***************************************************************************)

\* The texts of at most n words, the words a space apart
TextsUpTo(n) ==
  LET upTo[k \in 0..n] ==
        IF k = 0 THEN {<< >>}
        ELSE {<< >>} \cup
             {IF r = << >> THEN f ELSE f \o << " " >> \o r :
                f \in Frags, r \in upTo[k - 1]}
  IN upTo[n]

Texts == TextsUpTo(MaxFrags)

\* forcedIntent of processText: absent, or what processExpenseOrIncome passes
ForcedIntents == {NullIntent, "gasto", "ingreso"}

(***************************************************************************)
(* The extractors on messages, receipts and budget requests                 *)
(***************************************************************************)

\* The texts made of at most n fragments of F, joined by sep
JoinedUpTo(F, sep, n) ==
  LET upTo[k \in 0..n] ==
        IF k = 0 THEN {<< >>}
        ELSE {<< >>} \cup
             {IF r = << >> THEN f ELSE f \o sep \o r :
                f \in F, r \in upTo[k - 1]}
  IN upTo[n]

\* The fragments of the inputs: amounts in the forms of config.amountPatterns,
\* keywords of the categories, concept phrases, receipt lines, names of
\* budget categories, and the characters of texts without a word
ExtractFrags ==
  [amount   |-> { << "$", "4", "5" >>,
                 << "1", "0", "0", " ", "p", "e", "s", "o", "s" >>,
                 << "7", " ", "$" >>,
                 << "2", "0", " ", "A", "R", "S" >>,
                 << "P", "a", "g", "u", "é", " ", "d", "e", " ", "$", " ", "1", ",", "5", ",", "2" >>,
                 << "3", ".", "5", " ", "e", "n" >>,
                 << "h", "o", "l", "a" >>,
                 << "$" >>,
                 << "c", "o", "b", "r", "é" >>,
                 << "r", "e", "p", "o", "r", "t", "e" >> },
   category |-> { << "c", "a", "f", "é" >>,
                 << "C", "e", "l", "u", "l", "a", "r" >>,
                 << "G", "a", "s", "t", "é" >>,
                 << "S", "U", "P", "E", "R" >>,
                 << "t", "a", "x", "i" >>,
                 << "h", "o", "l", "a" >>,
                 << "b", "a", "r" >>,
                 << "n", "e", "t", "f", "l", "i", "x" >> },
   concept  |-> { << "R", "e", "c", "i", "b", "í" >>,
                 << "d", "e", " ", "p", "r", "o", "y", "e", "c", "t", "o" >>,
                 << "p", "o", "r", " ", "f", "r", "e", "e", "l", "a", "n", "c", "e" >>,
                 << "e", "n", " ", "l", "a" >>,
                 << "5", "0", "0" >>,
                 << "p", "a", "r", "a", " ", "e", "l" >>,
                 << "t", "i", "e", "n", "d", "a" >>,
                 << "f", "r", "e", "e", "l", "a", "n", "c", "e" >> },
   receipt  |-> { << "T", "O", "T", "A", "L", " ", "$", " ", "2", "3", ".", "5", "0", "0" >>,
                 << "L", "e", "c", "h", "e", " ", "3", ".", "2", "0", "0" >>,
                 << "T", "e", " ", "1", ",", "5" >>,
                 << "$", " ", "5" >>,
                 << "I", "M", "P", "O", "R", "T", "E", " ", "€", " ", "7", ",", "2", "5" >>,
                 << "S", "u", "b", "t", "o", "t", "a", "l", " ", "9" >>,
                 << "C", "A", "F", "E", " ", "L", "U", "N", "A" >>,
                 << "T", "o", "t", "a", "l", ":", " ", "8" >>,
                 << "P", "a", "n", " ", " ", "$", " ", "2", ",", "5", ",", "1" >> },
   name     |-> { << "c", "a", "r", "r", "e" >>,
                 << "f", "o", "u", "r" >>,
                 << "x", "y", "z" >>,
                 << "s", "u", "p", "e", "r" >>,
                 << "t", "a", "x", "i" >>,
                 << "c", "a", "f" >> },
   edge     |-> { << "$" >>,
                 << "." >>,
                 << "," >>,
                 << "/" >>,
                 << "-" >>,
                 << "1" >>,
                 << " " >>,
                 << "\n" >> }]

\* The inputs of each kind of call
ExtractTexts ==
  [message |-> JoinedUpTo(ExtractFrags.amount, << " " >>, MaxFrags)
                 \cup JoinedUpTo(ExtractFrags.category, << " " >>, MaxFrags)
                 \cup JoinedUpTo(ExtractFrags.concept, << " " >>, MaxFrags)
                 \cup JoinedUpTo(ExtractFrags.edge, << >>, MaxFrags)
                 \cup {m_gasto, m_ingreso},
   receipt |-> JoinedUpTo(ExtractFrags.receipt, << "\n" >>, MaxFrags)
                 \cup JoinedUpTo(ExtractFrags.edge, << >>, MaxFrags),
   budget  |-> {verb \o name \o amount :
                  verb \in {budgetWords.presupuesto \o << " " >> \o budgetWords.para \o << " " >>,
                            budgetWords.asignar \o << " " >>},
                  name \in JoinedUpTo(ExtractFrags.name, << >>, MaxFrags),
                  amount \in {<< " ", "5", "0", "0" >>, << " ", "d", "e", " ", "$", "1", "2", ",", "5" >>}}]

InitText ==
  /\ BotInit
  /\ today \in Todays
  /\ input \in Texts
  /\ out = NoOut

CallProcessText(forcedIntent) ==
  /\ out = NoOut
  /\ input \in Texts \cup ExtractTexts.message
  /\ out' = [fn |-> "processText", forcedIntent |-> forcedIntent,
             val |-> processText(input, forcedIntent, today)]
  /\ UNCHANGED << today, input, botVars >>

CallExtractDateFromText ==
  /\ out = NoOut
  /\ input \in Texts \cup ExtractTexts.message
  /\ out' = [fn |-> "extractDateFromText",
             val |-> extractDateFromText(input, today)]
  /\ UNCHANGED << today, input, botVars >>

CallExtractDate ==
  /\ out = NoOut
  /\ input \in Texts \cup ExtractTexts.receipt
  /\ out' = [fn |-> "extractDate", val |-> extractDate(input, today)]
  /\ UNCHANGED << today, input, botVars >>

NextText ==
  \/ \E forcedIntent \in ForcedIntents : CallProcessText(forcedIntent)
  \/ CallExtractDateFromText
  \/ CallExtractDate

SpecText == InitText /\ [][NextText]_vars

InitExtract ==
  /\ BotInit
  /\ today = BotDay
  /\ input \in ExtractTexts.message \cup ExtractTexts.receipt
                 \cup ExtractTexts.budget
  /\ out = NoOut

CallGetIntent ==
  /\ out = NoOut
  /\ input \in ExtractTexts.message
  /\ out' = [fn |-> "getIntent", val |-> getIntent(input)]
  /\ UNCHANGED << today, input, botVars >>

CallProcessReceipt ==
  /\ out = NoOut
  /\ input \in ExtractTexts.receipt
  /\ out' = [fn |-> "processReceipt", val |-> processReceipt(input, today)]
  /\ UNCHANGED << today, input, botVars >>

CallProcessBudget ==
  /\ out = NoOut
  /\ input \in ExtractTexts.budget
  /\ out' = [fn |-> "processBudget", val |-> budgetRequest(input)]
  /\ UNCHANGED << today, input, botVars >>

NextExtract ==
  \/ \E forcedIntent \in ForcedIntents : CallProcessText(forcedIntent)
  \/ CallGetIntent
  \/ CallExtractDateFromText
  \/ CallProcessReceipt
  \/ CallExtractDate
  \/ CallProcessBudget

SpecExtract == InitExtract /\ [][NextExtract]_vars

(***************************************************************************)
(* Properties                                                               *)
(***************************************************************************)

IsPrefix(s, t) == Len(s) <= Len(t) /\ SubSeq(t, 1, Len(s)) = s

Transactions == file.transactions

\* The messages that confirm a registration to the user
Confirmations == {"registered", "receipt"}

\* A reply was sent in this step, and it is r (its number and its kind).
Sent(r) ==
  /\ Len(replies') = Len(replies) + 1
  /\ SubSeq(replies', 1, Len(replies)) = replies
  /\ replies'[Len(replies')].msg = r.msg
  /\ replies'[Len(replies')].kind = r.kind

\* A message arrived in this step.
Arrived == Len(inbox') = Len(inbox) + 1

\* The chat message m is routed to processExpenseOrIncome.
IsExpenseOrIncome(m) ==
  /\ m.kind = "text"
  /\ ~isCommand(m.text)
  /\ intentOf(m.text) \in {"gasto", "ingreso"}

\* C1: every transaction in the persisted store has a non-null amount,
\* whether it came from a chat message or from a receipt.
C1_StoredAmountNotNull ==
  \A k \in 1..Len(Transactions) : Transactions[k].monto # Null

\* C2: the transaction list is append-only: in every step the sequence held
\* by the store before the step is a prefix of the sequence held after it.
C2_AppendOnly ==
  [][IsPrefix(file.transactions, file'.transactions)]_vars

\* C3: a confirmation ('registered' or 'receipt processed') is sent only for
\* a transaction that is in the store once the handler has run, so a failed
\* save is not answered with a confirmation.
C3_SaveFailureSurfaced ==
  [][\A kind \in Confirmations, id \in 1..MaxMsgs :
       Sent(Reply(id, kind)) =>
         \E k \in 1..Len(file'.transactions) :
           file'.transactions[k].msg = id]_vars

\* C4: a message is handled completely before a later one is taken up: a
\* receipt handler still in flight belongs to the last message received,
\* and the transactions are stored in the order the messages arrived.
C4_OneMessageAtATime ==
  /\ \A id \in DOMAIN photos : photos[id] \in InFlight => id = Len(inbox)
  /\ \A j, k \in 1..Len(Transactions) :
       j < k => Transactions[j].msg < Transactions[k].msg

\* C5: a chat message routed as expense or income whose amount is null
\* leaves the store as it was and is answered with the clarification
\* request; such a message changes the store only when it has an amount.
C5_NoAmountNoRecord ==
  [][(Arrived /\ IsExpenseOrIncome(inbox'[Len(inbox')])) =>
       LET id    == Len(inbox')
           monto == textDataOf(inbox'[id].text).monto
       IN /\ monto = Null => file' = file /\ Sent(Reply(id, "clarify"))
          /\ file' # file => monto # Null
          /\ Sent(Reply(id, "registered")) => monto # Null]_vars

C5_Witness ==
  \E k \in 1..Len(replies) :
    /\ replies[k].kind = "clarify"
    /\ IsExpenseOrIncome(inbox[replies[k].msg])
    /\ textDataOf(inbox[replies[k].msg].text).monto = Null
    /\ Len(Transactions) > 0

\* C6: when the fetch, the download, the write or the OCR of a receipt
\* photo fails, the step leaves the store as it was, and no transaction of
\* a photo is in the store unless the handling of that photo succeeded.
C6_FailedReceiptNotStored ==
  [][/\ \A id \in DOMAIN photos :
          (photos[id] \in InFlight /\ photos'[id] = "failed") => file' = file
     /\ \A k \in 1..Len(file'.transactions) :
          file'.transactions[k].origin = "receipt" =>
            photos'[file'.transactions[k].msg] = "done"]_vars

C6_Witness ==
  \E id \in DOMAIN photos :
    /\ photos[id] = "failed"
    /\ \E k \in 1..Len(Transactions) : Transactions[k].msg < id
    /\ \A k \in 1..Len(Transactions) : Transactions[k].msg # id

\* C7 as claimed: every record processText returns has type 'gasto' or
\* 'ingreso', whatever the text and whether forcedIntent is given or not.
C7_TypeNeverNull ==
  out.fn = "processText" => out.val.tipo \in {"gasto", "ingreso"}

\* C7 as amended: the type is 'gasto' or 'ingreso' when forcedIntent is one
\* of the two, or when it is absent and the text holds an expense keyword,
\* an income keyword or an extractable amount; with forcedIntent absent and
\* none of these in the text, the type is null.
C7_TypeKnownWhenDecidable ==
  out.fn = "processText" =>
    LET lower == toLowerCase(input)
        decidable ==
          \/ out.forcedIntent \in {"gasto", "ingreso"}
          \/ anyKeyword(lower, intentKeywords[1].keywords)
          \/ anyKeyword(lower, intentKeywords[2].keywords)
          \/ extractAmountFromText(input) # Null
    IN IF decidable THEN out.val.tipo \in {"gasto", "ingreso"}
       ELSE out.val.tipo = NullIntent

C7_Witness ==
  /\ out.fn = "processText"
  /\ out.forcedIntent = NullIntent
  /\ input = << "$", "4", "5" >>
  /\ out.val.tipo = "gasto"

\* A string of the form yyyy-mm-dd that names a day of the calendar
IsCalendarDate(s) ==
  /\ Len(s) = 10
  /\ s[5] = "-" /\ s[8] = "-"
  /\ \A k \in {1, 2, 3, 4, 6, 7, 9, 10} : IsDigit(s[k])
  /\ LET y == parseInt(SubSeq(s, 1, 4))
         m == parseInt(SubSeq(s, 6, 7))
         d == parseInt(SubSeq(s, 9, 10))
     IN /\ m \in 1..12
        /\ d >= 1
        /\ d <= MonthOffset(y, m) - MonthOffset(y, m - 1)

\* C8: the date the chat extractor and the receipt extractor return is a
\* string yyyy-mm-dd that names a day that exists.
C8_DateIsCalendarDate ==
  out.fn \in {"extractDateFromText", "extractDate"} => IsCalendarDate(out.val)

\* The day before the day (y, m, d) of the calendar, months 1..12
DayBefore(c) ==
  LET y == c[1]
      m == c[2]
      d == c[3]
      daysIn == << 31, IF IsLeapYear(y) THEN 29 ELSE 28, 31, 30, 31, 30,
                   31, 31, 30, 31, 30, 31 >>
  IN IF d > 1 THEN << y, m, d - 1 >>
     ELSE IF m > 1 THEN << y, m - 1, daysIn[m - 1] >>
     ELSE << y - 1, 12, 31 >>

\* (y, m, d) written yyyy-mm-dd, digit by digit
IsoDate(c) ==
  LET dg(n) == Digits[(n % 10) + 1]
  IN << dg(c[1] \div 1000), dg(c[1] \div 100), dg(c[1] \div 10), dg(c[1]),
        "-", dg(c[2] \div 10), dg(c[2]), "-", dg(c[3] \div 10), dg(c[3]) >>

\* new Date(y, m - 1, d)
DateOf(c) == MakeDay(c[1], c[2] - 1, c[3])

\* C9: a text with no anchored day/month date that contains 'anteayer'
\* yields the processing date minus two days.
C9_AnteayerIsTwoDaysBack ==
  (/\ out.fn = "extractDateFromText"
   /\ ~datePattern0(input).ok
   /\ Includes(toLowerCase(input), dayWords.anteayer))
    => \A c \in TodayCivil :
         today = DateOf(c) => out.val = IsoDate(DayBefore(DayBefore(c)))

\* C10: for the input 'ayer' the result is the day before the processing
\* date, written yyyy-mm-dd, also across the start of a month or of a year.
C10_AyerIsOneDayBack ==
  (out.fn = "extractDateFromText" /\ input = dayWords.ayer)
    => \A c \in TodayCivil :
         today = DateOf(c) => out.val = IsoDate(DayBefore(c))

C10_Witness ==
  /\ out.fn = "extractDateFromText"
  /\ input = dayWords.ayer
  /\ today = DateOf(<< 2024, 1, 1 >>)
  /\ out.val = << "2", "0", "2", "3", "-", "1", "2", "-", "3", "1" >>

(***************************************************************************)
(* Claims about the order of the patterns, categories and intents          *)
(***************************************************************************)

\* The word w occurs in t, letter case apart.
Occurs(w, t) ==
  \E i \in 1..(Len(t) - Len(w) + 1) :
    \A k \in 1..Len(w) : toLowerChar(t[i + k - 1]) = toLowerChar(w[k])

\* The patterns of config.amountPatterns that match the text
Matching(t) == {k \in 1..NumAmountPatterns : amountPattern(k, t) # << >>}

\* C11: whenever the first amount pattern (a `$` followed by a number)
\* matches, the amount of the text is the number that pattern captures, its
\* first comma made a period, whatever the other five patterns match and
\* wherever; the amount is null exactly when none of the six patterns matches.
C11_DollarPatternFirst ==
  out.fn = "processText" =>
    With(Matching(input), LAMBDA M :
      /\ 1 \in M =>
           out.val.monto = replaceFirstComma(amountPattern(1, input))
      /\ out.val.monto = Null <=> M = {})

\* A text that starts with an amount of a later pattern, different from the
\* `$` amount that follows it and that is returned.
C11_Witness ==
  /\ out.fn = "processText"
  /\ 1 \in Matching(input)
  /\ IsDigit(CharAt(input, 1))
  /\ \E k \in Matching(input) :
       amountPattern(k, input) # amountPattern(1, input)
  /\ out.val.monto = amountPattern(1, input)

\* The categories of which a keyword occurs in the text, letter case apart
Hits(t) ==
  {c \in 1..Len(expenseCategories) :
     \E k \in 1..Len(expenseCategories[c].keywords) :
       Occurs(expenseCategories[c].keywords[k], t)}

\* C12: the category of an expense text is the earliest declared category of
\* which a keyword occurs in the text, letter case apart, and it is 'otros'
\* exactly when no keyword of any category occurs.
C12_EarliestCategory ==
  (out.fn = "processText" /\ out.val.tipo = "gasto") =>
    With(Hits(input), LAMBDA H :
      /\ H # {} =>
           out.val.categoria
             = expenseCategories[CHOOSE c \in H : \A d \in H : c <= d]
                 .category
      /\ out.val.categoria = "otros" <=> H = {})

\* A text that starts with the keyword of a later category ('Celular') and
\* holds a keyword of the first one, which is the one returned.
C12_Witness ==
  /\ out.fn = "processText"
  /\ out.val.tipo = "gasto"
  /\ Cardinality(Hits(input)) >= 3
  /\ Occurs(<< "c", "e", "l", "u", "l", "a", "r" >>,
            SubSeq(input, 1, Min(7, Len(input))))
  /\ out.val.categoria = "supermercado"

\* The intents of which a keyword occurs in the text
IntentHits(t) ==
  {g \in 1..Len(intentKeywords) :
     \E k \in 1..Len(intentKeywords[g].keywords) :
       Includes(toLowerCase(t), intentKeywords[g].keywords[k])}

\* C13: for a message with no keyword of any intent group, getIntent returns
\* the expense intent when one of the amount patterns matches the text, and
\* otherwise the unknown intent, which the code writes null; its result is
\* always one of expense, income, goal, report, budget and unknown.
C13_DefaultIntent ==
  out.fn = "getIntent" =>
    /\ out.val \in {"gasto", "ingreso", "meta", "reporte", "presupuesto",
                    NullIntent}
    /\ IntentHits(input) = {} =>
         out.val = IF Matching(input) # {} THEN "gasto" ELSE NullIntent

\* A message of several words with an amount and no keyword: an expense.
C13_Witness ==
  /\ out.fn = "getIntent"
  /\ IntentHits(input) = {}
  /\ Matching(input) # {}
  /\ Len(input) > 8
  /\ out.val = "gasto"

(***************************************************************************)
(* Claims about the budget category, the concept and the receipt            *)
(***************************************************************************)

\* The category name processBudget takes from the message
NameOf(t) == toLowerCase(trim(budgetPattern(toLowerCase(t)).name))

\* The name n is part of a keyword of category c
InKeyword(n, c) ==
  \E k \in 1..Len(expenseCategories[c].keywords) :
    Includes(expenseCategories[c].keywords[k], n)

\* The name n and the key or a keyword of category c: one is part of the
\* other
Related(n, c) ==
  \/ Includes(n, expenseCategories[c].key)
  \/ Includes(expenseCategories[c].key, n)
  \/ \E k \in 1..Len(expenseCategories[c].keywords) :
       \/ Includes(expenseCategories[c].keywords[k], n)
       \/ Includes(n, expenseCategories[c].keywords[k])

\* C14: in a budget update, a category name that is part of a keyword of
\* exactly one category, and unrelated to the key and the keywords of every
\* other one, selects that category, whose budget becomes the amount; a
\* name unrelated to every key and keyword gets the answer that the
\* category was not identified, and no budget is set.
C14_KeywordPartSelects ==
  (out.fn = "processBudget" /\ out.val.kind # "status") =>
    With(NameOf(input), LAMBDA n :
      /\ \A c \in 1..Len(expenseCategories) :
           (/\ n # << >>
            /\ InKeyword(n, c)
            /\ \A d \in 1..Len(expenseCategories) : d # c => ~Related(n, d))
           => /\ out.val.kind = "update"
              /\ out.val.category = expenseCategories[c].category
      /\ (\A c \in 1..Len(expenseCategories) : ~Related(n, c))
           => out.val.kind = "unknown")

\* C15: the concept of an income text that contains 'freelance' or
\* 'proyecto' starts with 'Freelance:'.
C15_FreelancePrefix ==
  (/\ out.fn = "processText"
   /\ out.val.tipo = "ingreso"
   /\ \/ Occurs(<< "f", "r", "e", "e", "l", "a", "n", "c", "e" >>, input)
      \/ Occurs(<< "p", "r", "o", "y", "e", "c", "t", "o" >>, input))
  => IsPrefix(<< "F", "r", "e", "e", "l", "a", "n", "c", "e", ":" >>, out.val.concepto)

\* First position of the run of [0-9.,] that ends the line; 0 without one
PriceStart(line) ==
  IF line = << >> \/ ~IsNumChar(line[Len(line)]) THEN 0
  ELSE CHOOSE p \in 1..Len(line) :
         /\ \A k \in p..Len(line) : IsNumChar(line[k])
         /\ ~IsNumChar(CharAt(line, p - 1))

\* Where the label of a trimmed line ends: before the white space that
\* precedes the price, or that precedes the currency sign of the price; 0
\* when the line is not a label followed by a price.
LabelEnd(line) ==
  With(PriceStart(line), LAMBDA p :
    IF p >= 3 /\ IsSpace(line[p - 1]) THEN p - 2
    ELSE IF p >= 4 /\ IsCurrency(line[p - 1]) /\ IsSpace(line[p - 2])
      THEN p - 3
    ELSE 0)

\* The (label, price) pairs of the lines of t, in line order, whose label has
\* at least minLabel characters and none of the words of totals
PairsOf(t, minLabel) ==
  LET lines == splitLines(t)
      pairOf(l) ==
        With(trim(l), LAMBDA line :
        With(LabelEnd(line), LAMBDA e :
          IF e = 0 THEN << >>
          ELSE With(trim(SubSeq(line, 1, e)), LAMBDA label :
            IF /\ Len(label) >= minLabel
               /\ ~Occurs(receiptWords.total, label)
               /\ ~Occurs(<< "i", "v", "a" >>, label)
            THEN << [nombre |-> label,
                     precio |-> replaceFirstComma(
                                  SubSeq(line, PriceStart(line), Len(line)))] >>
            ELSE << >>)))
      pairs[k \in 0..Len(lines)] ==
        IF k = 0 THEN << >> ELSE pairs[k - 1] \o pairOf(lines[k])
  IN pairs[Len(lines)]

\* C16 as stated: the items of a receipt are, in line order, one (label,
\* price) pair for every line made of a label and a trailing price whose
\* label has none of 'total', 'subtotal', 'iva'; every other such line is
\* kept.
C16_EveryPricedLineKept ==
  out.fn = "processReceipt" => out.val.items = PairsOf(input, 1)

\* C16, amended: the items of a receipt are, in line order, one (label,
\* price) pair for every line made of a label and a trailing price whose
\* label has more than two characters and none of 'total', 'subtotal',
\* 'iva'.
C16_LongLabelsKept ==
  out.fn = "processReceipt" => out.val.items = PairsOf(input, 3)

\* A receipt of two lines with a label and a price: the one whose label has
\* two characters is left out, the other one is kept.
C16_Witness ==
  /\ out.fn = "processReceipt"
  /\ Len(out.val.items) = 1
  /\ Len(PairsOf(input, 1)) = 2
  /\ Len(PairsOf(input, 1)[1].nombre) = 2

\* The values the labelled patterns (TOTAL, IMPORTE, TOTAL with a colon)
\* capture in the text, the first comma made a period
Labelled(t) ==
  {replaceFirstComma(receiptAmountPattern(k, t)) :
     k \in {j \in 1..3 : receiptAmountPattern(j, t) # << >>}}

\* C17: the amount of a receipt text with an amount labelled TOTAL or
\* IMPORTE is a labelled amount, whatever amounts with a currency sign the
\* text holds and wherever; the amount after a bare currency sign is
\* returned only when no labelled pattern matches, and null only when no
\* pattern matches.
C17_LabelledAmountFirst ==
  out.fn = "processReceipt" =>
    With(Labelled(input), LAMBDA L :
    With(receiptAmountPattern(4, input), LAMBDA bare :
      /\ L # {} => out.val.monto \in L
      /\ (L = {} /\ bare # << >>) => out.val.monto = replaceFirstComma(bare)
      /\ out.val.monto = Null <=> (L = {} /\ bare = << >>)))

\* A receipt that starts with an amount after a currency sign and holds a
\* different, labelled amount later, which is the one returned.
C17_Witness ==
  /\ out.fn = "processReceipt"
  /\ IsCurrency(CharAt(input, 1))
  /\ out.val.monto \in Labelled(input)
  /\ out.val.monto # replaceFirstComma(receiptAmountPattern(4, input))

\* C18: processText('Gasté $45000 en el supermercado ayer', 'gasto') on
\* 2024-03-10 returns the type gasto, the amount '45000', the date
\* '2024-03-09', the concept 'Supermercado' and the category supermercado.
C18_ExpenseScenario ==
  (/\ out.fn = "processText"
   /\ input = m_gasto
   /\ out.forcedIntent = "gasto"
   /\ today = MakeDay(2024, 2, 10))
  => /\ out.val.tipo = "gasto"
     /\ out.val.monto = << "4", "5", "0", "0", "0" >>
     /\ out.val.fecha = << "2", "0", "2", "4", "-", "0", "3", "-", "0", "9" >>
     /\ out.val.concepto = << "S", "u", "p", "e", "r", "m", "e", "r", "c", "a", "d", "o" >>
     /\ out.val.categoria = "supermercado"

\* C19: the receipt text made of the lines 'TOTAL $ 23.500' and
\* 'Leche 3.200', in either order, has the amount '23.500' and exactly one
\* item, of label 'Leche' and price '3.200'.
C19_ReceiptScenario ==
  (/\ out.fn = "processReceipt"
   /\ input \in {<< "T", "O", "T", "A", "L", " ", "$", " ", "2", "3", ".", "5", "0", "0" >> \o << "\n" >> \o << "L", "e", "c", "h", "e", " ", "3", ".", "2", "0", "0" >>,
                 << "L", "e", "c", "h", "e", " ", "3", ".", "2", "0", "0" >> \o << "\n" >> \o << "T", "O", "T", "A", "L", " ", "$", " ", "2", "3", ".", "5", "0", "0" >>})
  => /\ out.val.monto = << "2", "3", ".", "5", "0", "0" >>
     /\ out.val.items = << [nombre |-> << "L", "e", "c", "h", "e" >>, precio |-> << "3", ".", "2", "0", "0" >>] >>

\* The receipt of the scenario has been read.
C19_Witness ==
  /\ out.fn = "processReceipt"
  /\ input = o_total
  /\ Len(out.val.items) = 1
  /\ out.val.monto # Null

\* A string of characters, none of them the mark of an absent value
IsText(v) == v # Null /\ v \in Seq({v[k] : k \in DOMAIN v})

\* A string of one or more characters of [0-9.,]
IsNumber(v) == Len(v) >= 1 /\ \A k \in 1..Len(v) : IsNumChar(v[k])

\* digits, then '-', digits, '-', digits: the shape of every date returned
IsDateShape(v) ==
  \E a \in 2..(Len(v) - 3) : \E b \in (a + 2)..(Len(v) - 1) :
    /\ v[a] = "-" /\ v[b] = "-"
    /\ \A k \in 1..Len(v) : k \notin {a, b} => IsDigit(v[k])

\* C20: for every input text, the empty one and those of punctuation,
\* digits and separators included, each extractor returns a value of its
\* kind or its sentinel: an intent or none, an amount or null, a date, a
\* concept or merchant that is not empty, a category, a sequence of items.
C20_ExtractorsTotal ==
  /\ out.fn = "getIntent" =>
       out.val \in {"gasto", "ingreso", "meta", "reporte", "presupuesto",
                    NullIntent}
  /\ out.fn = "processText" =>
       /\ out.val.monto = Null \/ IsNumber(out.val.monto)
       /\ IsDateShape(out.val.fecha)
       /\ IsText(out.val.concepto) /\ out.val.concepto # << >>
       /\ out.val.categoria
            \in {expenseCategories[c].category :
                   c \in 1..Len(expenseCategories)} \cup {"ingreso"}
  /\ out.fn \in {"extractDateFromText", "extractDate"} =>
       IsDateShape(out.val)
  /\ out.fn = "processReceipt" =>
       /\ out.val.monto = Null \/ IsNumber(out.val.monto)
       /\ IsDateShape(out.val.fecha)
       /\ IsText(out.val.concepto) /\ out.val.concepto # << >>
       /\ out.val.categoria
            \in {expenseCategories[c].category :
                   c \in 1..Len(expenseCategories)}
       /\ \A k \in 1..Len(out.val.items) :
            /\ IsText(out.val.items[k].nombre)
            /\ IsNumber(out.val.items[k].precio)

\* Every extractor has answered a text without a letter: the sentinels.
C20_Witness ==
  /\ out.fn = "processReceipt"
  /\ input # << >>
  /\ \A k \in 1..Len(input) : input[k] \in {"$", ".", ",", "/", "-", "\n"}
  /\ out.val.monto = Null
  /\ out.val.items = << >>
  /\ out.val.concepto = << "C", "o", "m", "e", "r", "c", "i", "o", " ", "n", "o", " ", "i", "d", "e", "n", "t", "i", "f", "i", "c", "a", "d", "o" >>

\* The sum of the amounts of the expenses of category c among txs that are
\* dated from the first of the month of day to day, each taken once.
MonthToDate(txs, c, day) ==
  LET first == Lookup(startOfMonthTable, day)
      counts(t) == /\ t.tipo = "gasto" /\ t.categoria = c
                   /\ dateOfString(t.fecha) >= first
                   /\ dateOfString(t.fecha) <= day
      amounts == [k \in 1..Len(txs) |->
                    IF counts(txs[k]) THEN parseFloat(txs[k].monto) ELSE 0]
      sum[k \in 0..Len(txs)] == IF k = 0 THEN 0 ELSE sum[k - 1] + amounts[k]
  IN IF \E k \in 1..Len(txs) : amounts[k] = NaN THEN NaN ELSE sum[Len(txs)]

\* The alert that belongs to a total and a limit
AlertLevel(total, budgeted) ==
  IF total = NaN \/ budgeted = 0 THEN "null"
  ELSE IF total >= budgeted THEN "exceeded"
  ELSE IF 4 * total >= 3 * budgeted THEN "reached"
  ELSE "null"

\* C21: when an expense with an amount has been registered (the store has
\* grown by it) and the confirmation is sent, the budget alert of the
\* confirmation is the one of the month-to-date total of its category in
\* which every stored expense, the new one included, counts once.
C21_EachExpenseCountedOnce ==
  [][LET r    == replies'[Len(replies')]
         txs  == file'.transactions
         data == txs[Len(txs)]
         older == SubSeq(txs, 1, Len(txs) - 1)
     IN (/\ Len(replies') = Len(replies) + 1
         /\ r.kind \in Confirmations
         /\ file' # file
         /\ data.tipo = "gasto"
         /\ data.monto # Null)
        => r.alert.level =
             AlertLevel(MonthToDate(older, data.categoria, today)
                          + parseFloat(data.monto),
                        file'.budget[data.categoria])]_vars

\* The messages for which a record was passed to registerTransaction: those
\* that were confirmed.
RegisteredMsgs ==
  {replies[k].msg : k \in {j \in DOMAIN replies :
                             replies[j].kind \in Confirmations}}

\* The budget updates made: the number of each message answered with the
\* confirmation of an update, with the request read from it.
BudgetUpdates ==
  {[msg |-> replies[j].msg,
    req |-> budgetRequestOf(inbox[replies[j].msg].text)] :
     j \in {k \in DOMAIN replies : replies[k].kind = "budgetUpdated"}}

\* The limit last written for category c by the updates ups, or the limit
\* the store started with.
LastBudget(ups, c) ==
  IF \A u \in ups : u.req.category # c THEN monthlyBudget[c]
  ELSE (CHOOSE u \in ups :
          /\ u.req.category = c
          /\ \A v \in ups : v.req.category = c => v.msg <= u.msg).req.amount

\* C22: when the reads and writes of the store succeed, whatever the order
\* in which text messages, budget updates and the steps of receipt handlers
\* run, the store holds the record of every confirmed message exactly once
\* and nothing else, and for every category the limit last written.
C22_NoLostUpdate ==
  /\ Len(file.transactions) = Cardinality(RegisteredMsgs)
  /\ \A id \in RegisteredMsgs :
       /\ Cardinality({k \in DOMAIN file.transactions :
                         file.transactions[k].msg = id}) = 1
       /\ inbox[id].kind = "text" =>
            With(textDataOf(inbox[id].text), LAMBDA textData :
              \E k \in DOMAIN file.transactions :
                file.transactions[k] = Stored(textData, id, "text"))
       /\ inbox[id].kind = "photo" =>
            \E k \in DOMAIN file.transactions :
              /\ file.transactions[k].msg = id
              /\ file.transactions[k].origin = "receipt"
  /\ DOMAIN file.budget = DOMAIN monthlyBudget
  /\ With(BudgetUpdates, LAMBDA ups :
       \A c \in DOMAIN monthlyBudget : file.budget[c] = LastBudget(ups, c))

\* A text message and a budget update were handled while a photo awaited
\* its OCR, and the receipt was stored after them.
C22_Witness ==
  /\ Len(inbox) = 3
  /\ inbox[1].kind = "photo"
  /\ photos[1] = "done"
  /\ Len(file.transactions) = 2
  /\ file.transactions[1].msg \in {2, 3}
  /\ file.transactions[2].msg = 1
  /\ file.budget["supermercado"] = Num(100000)

\* The final replies of a receipt photo
FinalReplies == {"receipt", "receiptError"}

\* C23: every receipt photo, once it has been answered with the notice, is
\* eventually answered with the formatted receipt or with the error message,
\* whatever the outcome of the download, of the write of the temporary file
\* and of the OCR.
C23_PhotoGetsFinalReply ==
  \A id \in 1..MaxMsgs :
    (id \in DOMAIN photos)
      ~> (\E k \in DOMAIN replies :
            replies[k].msg = id /\ replies[k].kind \in FinalReplies)

\* C24: when the handling of a receipt photo has ended, with the receipt or
\* with the error message, the temporary image written for it is gone.
C24_NoTempFileLeft ==
  \A id \in DOMAIN photos :
    photos[id] \in {"done", "failed"} => id \notin tempFiles

\* C25: a budget update that is confirmed to the user leaves the limits of
\* the categories other than the selected one as they were in the store, and
\* leaves config.monthlyBudget as it was, whether the load succeeded or not.
C25_OnlySelectedLimitChanges ==
  [][Sent(Reply(Len(inbox'), "budgetUpdated"))
       => /\ cfgBudget' = cfgBudget
          /\ \A c \in DOMAIN file.budget :
               c # budgetRequestOf(inbox'[Len(inbox')].text).category
                 => file'.budget[c] = file.budget[c]]_vars

====
